---- MODULE Spec2Model ----
(***************************************************************************)
(* The particle plumber of aquamarine (src/aquamarine/src/plumber.rs): a   *)
(* polled state machine that ingests particles, routes each to an actor    *)
(* keyed by the particle signature, and multiplexes the VMs of the host    *)
(* pool and of the worker pools across the actors.                         *)
(*                                                                         *)
(* `ingest`, `create_worker_pool`, `remove_worker_pool` and `poll` take    *)
(* `&mut self`: each is one atomic action.  What runs concurrently with    *)
(* the plumber (AVM calls, VM creation, the batch cleanup, the workers     *)
(* registry, the clock) is the environment, one action each.               *)
(*                                                                         *)
(* Actor, VmPool, Deadline, Workers and PeerScopes live in files that are  *)
(* not part of src/; they are modelled from sections 4.2, 4.3, 4.5 and 6   *)
(* of the specification.                                                   *)
(*                                                                         *)
(* The module also holds the record store of the Kademlia behaviour        *)
(* (src/janus/server/src/kademlia/memory_store.rs), which shares nothing   *)
(* with the plumber: its calls are actions of their own specifications.    *)
(***************************************************************************)
EXTENDS Integers, Sequences, FiniteSets, TLC

VARIABLES
    now,        \* now_ms(): the clock
    pl,         \* the Plumber struct (self)
    env,        \* the Workers registry, the KeyStorage and the particles peers send
    last,       \* the last call made on the plumber, and what it did
    memory_store,   \* the MemoryStore of the Kademlia behaviour
    calls       \* the calls made on the store, each with what it returned

vars == <<now, pl, env, last, memory_store, calls>>

-----------------------------------------------------------------------------
(* Bounds of the model *)

MaxNow == 2          \* the clock stops here
MaxMailbox == 2      \* external ingest stops filling a mailbox at this length
MaxEvents == 2       \* external ingest stops queueing error events at this length
MaxThreads == 1      \* create_worker_pool's thread_count ranges over 1..MaxThreads
HostPoolSize == 2    \* size of the host pool handed to Plumber::new
MaxIngests == 2      \* particles the peers send in one behaviour
MaxPoolCalls == 2    \* create_worker_pool and remove_worker_pool calls in one behaviour
MaxServiceCalls == 3 \* add_service and remove_service calls in one behaviour

\* The most keys one cleanup pass collects: 1024 in the source, scaled down
\* so that a pass of the model can reach it
MAX_CLEANUP_KEYS_SIZE == 2

-----------------------------------------------------------------------------
(* Identities *)

Host == "host"                 \* PeerScope::Host, and the host's PeerId
Workers == {"w1", "w2"}        \* WorkerId, and the worker's PeerId (worker_id.into())
Scopes == {Host} \cup Workers  \* PeerScope
ManagerPeer == "mgr"
RemotePeer == "ext"
Peers == Scopes \cup {ManagerPeer, RemotePeer}

None == <<>>                   \* Option::None; Some(x) is <<x>>
Some(x) == <<x>>
IsSome(o) == o # <<>>
Unwrap(o) == o[1]

\* The particles peers send.  A valid signature covers id, init_peer_id,
\* timestamp and ttl, so these are fixed per signature; the data changes from
\* hop to hop.  PX carries the bytes of signature "sa" without being signed
\* by them.
PA(d) == [id |-> "a", init_peer_id |-> RemotePeer, timestamp |-> 0, ttl |-> 1,
          signature |-> "sa", signed |-> TRUE, data |-> d]
PB == [id |-> "b", init_peer_id |-> Host, timestamp |-> 0, ttl |-> 2,
       signature |-> "sb", signed |-> TRUE, data |-> 0]
PM == [id |-> "m", init_peer_id |-> ManagerPeer, timestamp |-> 0, ttl |-> 2,
       signature |-> "sm", signed |-> TRUE, data |-> 0]
PX == [id |-> "x", init_peer_id |-> RemotePeer, timestamp |-> 0, ttl |-> 2,
       signature |-> "sa", signed |-> FALSE, data |-> 0]

\* How an AVM call may end: with the vm and next_peers, or with the vm lost
\* and no effects
Outcome(vm_lost, next_peers) == [vm_lost |-> vm_lost, next_peers |-> next_peers]

-----------------------------------------------------------------------------
(* HashMap helpers *)

MapPut(m, k, v) == [x \in (DOMAIN m) \cup {k} |-> IF x = k THEN v ELSE m[x]]
MapRemove(m, k) == [x \in (DOMAIN m) \ {k} |-> m[x]]
EmptyMap == [x \in {} |-> {}]

\* All the orders in which a HashMap over keys S may be iterated
Perms(S) == { f \in [1..Cardinality(S) -> S] : \A a \in S : \E i \in DOMAIN f : f[i] = a }

\* One element of F[x] for every x
Choices(F) ==
    { f \in [DOMAIN F -> UNION {F[x] : x \in DOMAIN F}] : \A x \in DOMAIN F : f[x] \in F[x] }

\* The iteration order of the entries present in map m, out of order ord
IterOrder(m, ord) == SelectSeq(ord, LAMBDA k : k \in DOMAIN m)

-----------------------------------------------------------------------------
(* Deadline (section 4.5) *)

\* The largest u64, scaled down: times are 0 .. U64_MAX
U64_MAX == 7

\* A particle stamped one millisecond before the end of time
PF == [id |-> "f", init_peer_id |-> RemotePeer, timestamp |-> U64_MAX - 1, ttl |-> 2,
       signature |-> "sf", signed |-> TRUE, data |-> 0]

\* Deadline::from: timestamp + ttl, saturating
DeadlineFrom(particle) ==
    IF particle.timestamp + particle.ttl > U64_MAX THEN U64_MAX
    ELSE particle.timestamp + particle.ttl
is_expired(deadline, now_ms) == now_ms >= deadline

\* Particle::verify
verify(particle) == particle.signed

-----------------------------------------------------------------------------
(* VmPool (section 4.3) *)

\* VmPool::new: nothing is created before the first poll
VmPoolNew(size) ==
    [pool_size |-> size, started |-> FALSE, creating |-> {}, free |-> <<>>]

\* VmPool::poll: the first poll starts the creation of every vm.  (A vm whose
\* creation future is ready lands in the free list at the next poll of the
\* pool, which every tick does before it takes any vm: VmReady puts it there.)
VmPoolPoll(pool) ==
    IF pool.started THEN pool
    ELSE [pool EXCEPT !.started = TRUE, !.creating = 0 .. (pool.pool_size - 1)]

\* The creation future of vm_id is ready
VmPoolCreated(pool, vm_id) ==
    [pool EXCEPT !.creating = @ \ {vm_id}, !.free = Append(@, vm_id)]

\* VmPool::get_vm: pop from the free list
HasVm(pool) == pool.free # <<>>
TopVm(pool) == pool.free[Len(pool.free)]
PopVm(pool) == [pool EXCEPT !.free = SubSeq(@, 1, Len(@) - 1)]

\* VmPool::put_vm
put_vm(pool, vm_id) == [pool EXCEPT !.free = Append(@, vm_id)]

\* VmPool::recreate_avm
recreate_avm(pool, vm_id) == [pool EXCEPT !.creating = @ \cup {vm_id}]

free_vms(pool) == Len(pool.free)

-----------------------------------------------------------------------------
(* Actor (section 4.2) *)

\* Actor::new
ActorNew(particle) ==
    [mailbox |-> <<>>, current |-> None, deadline |-> DeadlineFrom(particle),
     particle_id |-> particle.id, function |-> FALSE]

ActorIngest(actor, particle) == [actor EXCEPT !.mailbox = Append(@, particle)]
ActorSetFunction(actor) == [actor EXCEPT !.function = TRUE]
ActorIsExecuting(actor) == IsSome(actor.current)
ActorIsExpired(actor, now_ms) == is_expired(actor.deadline, now_ms)
ActorMailboxSize(actor) == Len(actor.mailbox)

\* Actor::poll_next: the actor starts (ActorPoll::Executing) iff it is idle and
\* has mail; otherwise it hands the vm back (ActorPoll::Vm)
ActorCanStart(actor) == actor.current = None /\ actor.mailbox # <<>>

\* `current` lists the executions the actor has in flight (an Option in the
\* code: the list never holds more than one, which is what poll_next's test
\* of `current` is there for)
ActorStart(actor, vm_id) ==
    [actor EXCEPT !.mailbox = Tail(@),
                  !.current = Append(@, [particle |-> Head(actor.mailbox), vm_id |-> vm_id,
                                         ready |-> FALSE, vm_lost |-> FALSE,
                                         next_peers |-> <<>>])]

\* Actor::poll_completed: Ready once the AVM future of the execution is
ActorCompleted(actor) == IsSome(actor.current) /\ Unwrap(actor.current).ready
ActorTakeResult(actor) == [actor EXCEPT !.current = Tail(@)]

-----------------------------------------------------------------------------
(* Plumber: events, waker *)

ErrEvent(kind, particle) ==
    [ok |-> FALSE, kind |-> kind, particle_id |-> particle.id,
     data |-> 0, next_peers |-> <<>>]
RemoteRoutingEffects(particle, next_peers) ==
    [ok |-> TRUE, kind |-> "RemoteRoutingEffects", particle_id |-> particle.id,
     data |-> particle.data, next_peers |-> next_peers]

\* Plumber::wake
wake(s) == IF IsSome(s.waker) THEN [s EXCEPT !.woken = TRUE] ELSE s

\* Workers::is_worker_active, PeerScopes::is_management, PeerScopes::is_host
is_worker_active(reg, worker_id) == worker_id \in reg.active
is_management(peer) == peer = ManagerPeer
is_host(peer) == peer = Host

\* PeerScopes::scope: Ok(scope) for the host and for the workers of this node
IsLocalPeer(reg, peer) == peer = Host \/ peer \in reg.ids

-----------------------------------------------------------------------------
(* Plumber::ingest *)

create_actor_Fresh(actors, key, particle, peer_scope, reg) ==
    IF peer_scope \notin reg.keypairs
    THEN [ok |-> FALSE, actors |-> actors]
    ELSE [ok |-> TRUE, actors |-> MapPut(actors, key, ActorNew(particle))]

\* Plumber::create_actor: [ok, actors]
create_actor(actors, key, particle, peer_scope, reg) ==
    IF key \in DOMAIN actors
    THEN [ok |-> TRUE, actors |-> actors]
    ELSE IF peer_scope \notin reg.keypairs
         THEN [ok |-> FALSE, actors |-> actors]
         ELSE [ok |-> TRUE, actors |-> MapPut(actors, key, ActorNew(particle))]

\* Plumber::get_or_create_actor: [ok, s]
get_or_create_actor_Unchecked(s, peer_scope, key, particle, reg) ==
    IF peer_scope = Host
    THEN LET r == create_actor(s.host_actors, key, particle, peer_scope, reg)
         IN [ok |-> r.ok, s |-> [s EXCEPT !.host_actors = r.actors]]
    ELSE LET s1 == IF peer_scope \in DOMAIN s.worker_actors THEN s
                   ELSE [s EXCEPT !.worker_actors = MapPut(@, peer_scope, EmptyMap)]
         IN [ok |-> TRUE,
             s |-> [s1 EXCEPT !.worker_actors[peer_scope] =
                        IF key \in DOMAIN @ THEN @ ELSE MapPut(@, key, ActorNew(particle))]]

get_or_create_actor_ChecksFirst(s, peer_scope, key, particle, reg) ==
    IF peer_scope = Host
    THEN LET r == create_actor(s.host_actors, key, particle, peer_scope, reg)
         IN [ok |-> r.ok, s |-> [s EXCEPT !.host_actors = r.actors]]
    ELSE IF peer_scope \notin reg.deals THEN [ok |-> FALSE, s |-> s]
    ELSE IF peer_scope \notin reg.runtimes THEN [ok |-> FALSE, s |-> s]
    ELSE LET s1 == IF peer_scope \in DOMAIN s.worker_actors THEN s
                   ELSE [s EXCEPT !.worker_actors = MapPut(@, peer_scope, EmptyMap)]
             r == create_actor(s1.worker_actors[peer_scope], key, particle,
                               peer_scope, reg)
         IN [ok |-> r.ok,
             s |-> [s1 EXCEPT !.worker_actors[peer_scope] = r.actors]]

get_or_create_actor(s, peer_scope, key, particle, reg) ==
    IF peer_scope = Host
    THEN LET r == create_actor(s.host_actors, key, particle, peer_scope, reg)
         IN [ok |-> r.ok, s |-> [s EXCEPT !.host_actors = r.actors]]
    ELSE LET s1 == IF peer_scope \in DOMAIN s.worker_actors THEN s
                   ELSE [s EXCEPT !.worker_actors = MapPut(@, peer_scope, EmptyMap)]
         IN IF peer_scope \notin reg.deals THEN [ok |-> FALSE, s |-> s1]
            ELSE IF peer_scope \notin reg.runtimes THEN [ok |-> FALSE, s |-> s1]
            ELSE LET r == create_actor(s1.worker_actors[peer_scope], key, particle,
                                       peer_scope, reg)
                 IN [ok |-> r.ok,
                     s |-> [s1 EXCEPT !.worker_actors[peer_scope] = r.actors]]

DeliverToActor_Front(s, peer_scope, key, particle, function) ==
    IF peer_scope = Host
    THEN [s EXCEPT !.host_actors[key].mailbox = <<particle>> \o @]
    ELSE [s EXCEPT !.worker_actors[peer_scope][key].mailbox = <<particle>> \o @]

\* actor.ingest(particle) and actor.set_function(function) on the actor found
DeliverToActor(s, peer_scope, key, particle, function) ==
    LET deliver(a) == IF function THEN ActorSetFunction(ActorIngest(a, particle))
                      ELSE ActorIngest(a, particle)
    IN IF peer_scope = Host
       THEN [s EXCEPT !.host_actors[key] = deliver(@)]
       ELSE [s EXCEPT !.worker_actors[peer_scope][key] = deliver(@)]

ParticleExpired_Silent(s, particle) == s

\* self.events.push_back(Err(AquamarineApiError::ParticleExpired { particle_id }))
ParticleExpired(s, particle) ==
    [s EXCEPT !.events = Append(@, ErrEvent("ParticleExpired", particle))]

SignatureVerificationFailed_Silent(s, particle) == s

\* self.events.push_back(Err(AquamarineApiError::SignatureVerificationFailed { .. }))
SignatureVerificationFailed(s, particle) ==
    [s EXCEPT !.events = Append(@, ErrEvent("SignatureVerificationFailed", particle))]

WorkerIsNotActive_Never(reg, particle, peer_scope) == FALSE

WorkerIsNotActive_AnyInitiator(reg, particle, peer_scope) ==
    /\ peer_scope # Host
    /\ ~is_worker_active(reg, peer_scope)

\* The test that ends ingest for a deactivated worker: only a manager or the
\* host itself is allowed to access it
WorkerIsNotActive(reg, particle, peer_scope) ==
    /\ peer_scope # Host
    /\ ~is_worker_active(reg, peer_scope)
    /\ ~is_management(particle.init_peer_id)
    /\ ~is_host(particle.init_peer_id)

\* Plumber::ingest
ExpiredAtIngest_Wrapping(particle, now_ms) ==
    is_expired((particle.timestamp + particle.ttl) % (U64_MAX + 1), now_ms)

\* Deadline::from(particle.as_ref()).is_expired(now_ms())
ExpiredAtIngest(particle, now_ms) == is_expired(DeadlineFrom(particle), now_ms)

ingest_VerifiesFirst(s, particle, function, peer_scope, reg, now_ms) ==
    IF ~verify(particle)
    THEN SignatureVerificationFailed(s, particle)
    ELSE IF ExpiredAtIngest(particle, now_ms)
    THEN ParticleExpired(s, particle)
    ELSE IF WorkerIsNotActive(reg, particle, peer_scope)
    THEN s
    ELSE LET r == get_or_create_actor(s, peer_scope, particle.signature, particle, reg)
         IN IF ~r.ok /\ reg.debug_assertions
            THEN [r.s EXCEPT !.panicked = TRUE]
            ELSE wake(IF r.ok
                      THEN DeliverToActor(r.s, peer_scope, particle.signature, particle,
                                          function)
                      ELSE r.s)

\* Plumber::ingest.  debug_assert!(actor.is_ok()) panics where the build has
\* debug assertions, before the particle is logged as rejected and before wake()
ingest(s, particle, function, peer_scope, reg, now_ms) ==
    IF ExpiredAtIngest(particle, now_ms)
    THEN ParticleExpired(s, particle)
    ELSE IF ~verify(particle)
    THEN SignatureVerificationFailed(s, particle)
    ELSE IF WorkerIsNotActive(reg, particle, peer_scope)
    THEN s
    ELSE LET r == get_or_create_actor(s, peer_scope, particle.signature, particle, reg)
         IN IF ~r.ok /\ reg.debug_assertions
            THEN [r.s EXCEPT !.panicked = TRUE]
            ELSE wake(IF r.ok
                      THEN DeliverToActor(r.s, peer_scope, particle.signature, particle,
                                          function)
                      ELSE r.s)

\* Plumber::create_worker_pool
create_worker_pool(s, worker_id, thread_count) ==
    [s EXCEPT !.worker_vm_pools = MapPut(@, worker_id, VmPoolNew(thread_count))]

remove_worker_pool_WithActors(s, worker_id) ==
    [s EXCEPT !.worker_vm_pools = MapRemove(@, worker_id),
              !.worker_actors = MapRemove(@, worker_id)]

\* Plumber::remove_worker_pool
remove_worker_pool(s, worker_id) ==
    [s EXCEPT !.worker_vm_pools = MapRemove(@, worker_id)]

-----------------------------------------------------------------------------
(* Plumber::poll, step by step *)

\* Plumber::poll_pools
poll_pools(s) ==
    [s EXCEPT !.host_vm_pool = VmPoolPoll(@),
              !.worker_vm_pools = [w \in DOMAIN @ |-> VmPoolPoll(@[w])]]

CollectCompleted_PutsBack(acc, reg, scope, key) ==
    LET actor == acc.actors[key]
        result == Unwrap(actor.current)
        remote_peers == SelectSeq(result.next_peers, LAMBDA p : ~IsLocalPeer(reg, p))
        local_peers == SelectSeq(result.next_peers, LAMBDA p : IsLocalPeer(reg, p))
    IN [actors |-> [acc.actors EXCEPT ![key] = ActorTakeResult(actor)],
        pool |-> put_vm(acc.pool, result.vm_id),
        remote |-> IF remote_peers # <<>>
                   THEN Append(acc.remote, [particle |-> result.particle,
                                            next_peers |-> remote_peers])
                   ELSE acc.remote,
        local |-> IF local_peers # <<>>
                  THEN Append(acc.local, [particle |-> result.particle,
                                          next_peers |-> local_peers])
                  ELSE acc.local,
        completed |-> acc.completed \cup {<<scope, key>>}]

CollectCompleted_Unsplit(acc, reg, scope, key) ==
    LET actor == acc.actors[key]
        result == Unwrap(actor.current)
        local_peers == SelectSeq(result.next_peers, LAMBDA p : IsLocalPeer(reg, p))
    IN [actors |-> [acc.actors EXCEPT ![key] = ActorTakeResult(actor)],
        pool |-> IF ~result.vm_lost THEN put_vm(acc.pool, result.vm_id)
                 ELSE recreate_avm(acc.pool, result.vm_id),
        remote |-> IF result.next_peers # <<>>
                   THEN Append(acc.remote, [particle |-> result.particle,
                                            next_peers |-> result.next_peers])
                   ELSE acc.remote,
        local |-> IF local_peers # <<>>
                  THEN Append(acc.local, [particle |-> result.particle,
                                          next_peers |-> local_peers])
                  ELSE acc.local,
        completed |-> acc.completed \cup {<<scope, key>>}]

\* The body of poll_actors' loop for one actor whose execution has completed:
\* split next_peers, give the vm back or have it recreated.
\* acc is [actors, pool, remote, local, completed].
CollectCompleted(acc, reg, scope, key) ==
    LET actor == acc.actors[key]
        result == Unwrap(actor.current)
        remote_peers == SelectSeq(result.next_peers, LAMBDA p : ~IsLocalPeer(reg, p))
        local_peers == SelectSeq(result.next_peers, LAMBDA p : IsLocalPeer(reg, p))
    IN [actors |-> [acc.actors EXCEPT ![key] = ActorTakeResult(actor)],
        pool |-> IF ~result.vm_lost THEN put_vm(acc.pool, result.vm_id)
                 ELSE recreate_avm(acc.pool, result.vm_id),
        remote |-> IF remote_peers # <<>>
                   THEN Append(acc.remote, [particle |-> result.particle,
                                            next_peers |-> remote_peers])
                   ELSE acc.remote,
        local |-> IF local_peers # <<>>
                  THEN Append(acc.local, [particle |-> result.particle,
                                          next_peers |-> local_peers])
                  ELSE acc.local,
        completed |-> acc.completed \cup {<<scope, key>>}]

RECURSIVE PollActorsLoop(_, _, _, _)
PollActorsLoop(acc, reg, scope, order) ==
    IF order = <<>> THEN acc
    ELSE IF ActorCompleted(acc.actors[Head(order)])
         THEN PollActorsLoop(CollectCompleted(acc, reg, scope, Head(order)), reg, scope,
                             Tail(order))
         ELSE PollActorsLoop(acc, reg, scope, Tail(order))

\* Plumber::poll_actors on one actor map and its pool
poll_actors(acc, reg, scope, ord) ==
    PollActorsLoop(acc, reg, scope, IterOrder(acc.actors, ord))

\* t is [s, remote, local, completed]: the plumber and the effects gathered so far
poll_host_actors(t, reg, ord) ==
    LET r == poll_actors([actors |-> t.s.host_actors, pool |-> t.s.host_vm_pool,
                          remote |-> t.remote, local |-> t.local,
                          completed |-> t.completed], reg, Host, ord.host)
    IN [s |-> [t.s EXCEPT !.host_actors = r.actors, !.host_vm_pool = r.pool],
        remote |-> r.remote, local |-> r.local, completed |-> r.completed]

RECURSIVE PollWorkersLoop(_, _, _, _)
PollWorkersLoop(t, reg, ord, order) ==
    IF order = <<>> THEN t
    ELSE LET worker_id == Head(order)
         IN IF worker_id \in DOMAIN t.s.worker_vm_pools
            THEN LET r == poll_actors([actors |-> t.s.worker_actors[worker_id],
                                       pool |-> t.s.worker_vm_pools[worker_id],
                                       remote |-> t.remote, local |-> t.local,
                                       completed |-> t.completed],
                                      reg, worker_id, ord.actors[worker_id])
                 IN PollWorkersLoop(
                        [s |-> [t.s EXCEPT !.worker_actors[worker_id] = r.actors,
                                           !.worker_vm_pools[worker_id] = r.pool],
                         remote |-> r.remote, local |-> r.local,
                         completed |-> r.completed],
                        reg, ord, Tail(order))
            ELSE PollWorkersLoop(t, reg, ord, Tail(order))

\* Plumber::poll_workers_actors: the workers without a pool are skipped
poll_workers_actors(t, reg, ord) ==
    PollWorkersLoop(t, reg, ord, IterOrder(t.s.worker_actors, ord.workers))

-----------------------------------------------------------------------------
(* Cleanup *)

\* Actor::cleanup_key: particle id, current peer, signature (the deal id
\* follows from the peer)
cleanup_key(actor, scope, key) ==
    [particle_id |-> actor.particle_id, peer |-> scope, signature |-> key]

KeepActor_UnlessExpired(actor, cleanup_keys, now_ms) ==
    \/ Len(cleanup_keys) >= MAX_CLEANUP_KEYS_SIZE
    \/ ~ActorIsExpired(actor, now_ms)

KeepActor_Unlimited(actor, cleanup_keys, now_ms) ==
    \/ ~ActorIsExpired(actor, now_ms)
    \/ ActorIsExecuting(actor)

\* The closure of cleanup_actors' retain: TRUE iff the actor is kept
KeepActor(actor, cleanup_keys, now_ms) ==
    \/ Len(cleanup_keys) >= MAX_CLEANUP_KEYS_SIZE
    \/ ~ActorIsExpired(actor, now_ms)
    \/ ActorIsExecuting(actor)

RECURSIVE CleanupActorsLoop(_, _, _, _)
CleanupActorsLoop(c, scope, now_ms, order) ==
    IF order = <<>> THEN c
    ELSE LET key == Head(order)
         IN IF KeepActor(c.map[key], c.keys, now_ms)
            THEN CleanupActorsLoop(c, scope, now_ms, Tail(order))
            ELSE CleanupActorsLoop(
                     [map |-> MapRemove(c.map, key),
                      keys |-> Append(c.keys, cleanup_key(c.map[key], scope, key))],
                     scope, now_ms, Tail(order))

\* Plumber::cleanup_actors: [map, keys]
cleanup_actors(map, cleanup_keys, now_ms, scope, ord) ==
    CleanupActorsLoop([map |-> map, keys |-> cleanup_keys], scope, now_ms,
                      IterOrder(map, ord))

KeepBucket_WithPool(actors, worker_vm_pools, worker_id) ==
    worker_id \in DOMAIN worker_vm_pools

\* The closure of cleanup_worker_actors' retain: TRUE iff the bucket is kept
KeepBucket(actors, worker_vm_pools, worker_id) ==
    actors # EmptyMap \/ worker_id \in DOMAIN worker_vm_pools

RECURSIVE CleanupWorkersLoop(_, _, _, _)
CleanupWorkersLoop(c, now_ms, ord, order) ==
    IF order = <<>> THEN c
    ELSE LET worker_id == Head(order)
             r == cleanup_actors(c.s.worker_actors[worker_id], c.keys, now_ms,
                                 worker_id, ord.actors[worker_id])
         IN CleanupWorkersLoop(
                [s |-> IF KeepBucket(r.map, c.s.worker_vm_pools, worker_id)
                       THEN [c.s EXCEPT !.worker_actors[worker_id] = r.map]
                       ELSE [c.s EXCEPT !.worker_actors = MapRemove(@, worker_id)],
                 keys |-> r.keys],
                now_ms, ord, Tail(order))

\* Plumber::cleanup_worker_actors: [s, keys]
cleanup_worker_actors(s, cleanup_keys, now_ms, ord) ==
    IF Len(cleanup_keys) >= MAX_CLEANUP_KEYS_SIZE
    THEN [s |-> s, keys |-> cleanup_keys]
    ELSE CleanupWorkersLoop([s |-> s, keys |-> cleanup_keys], now_ms, ord,
                            IterOrder(s.worker_actors, ord.workers))

cleanup_host_actors_Forgets(s, cleanup_keys, now_ms, ord) ==
    LET r == cleanup_actors(s.host_actors, cleanup_keys, now_ms, Host, ord.host)
    IN [s |-> [s EXCEPT !.host_actors = r.map], keys |-> cleanup_keys]

\* Plumber::cleanup_host_actors: [s, keys]
cleanup_host_actors(s, cleanup_keys, now_ms, ord) ==
    LET r == cleanup_actors(s.host_actors, cleanup_keys, now_ms, Host, ord.host)
    IN [s |-> [s EXCEPT !.host_actors = r.map], keys |-> r.keys]

cleanup_Unguarded(s, now_ms, ord) ==
    LET h == cleanup_host_actors(s, <<>>, now_ms, ord)
        w == cleanup_worker_actors(h.s, h.keys, now_ms, ord)
    IN [s |-> IF w.keys # <<>>
              THEN [w.s EXCEPT !.cleanup_future = Some([keys |-> w.keys, done |-> FALSE])]
              ELSE w.s,
        keys |-> w.keys, ran |-> TRUE]

cleanup_AlwaysSchedules(s, now_ms, ord) ==
    LET s1 == IF IsSome(s.cleanup_future) /\ Unwrap(s.cleanup_future).done
              THEN [s EXCEPT !.cleanup_future = None]
              ELSE s
    IN IF IsSome(s1.cleanup_future)
       THEN [s |-> s1, keys |-> <<>>, ran |-> FALSE]
       ELSE LET h == cleanup_host_actors(s1, <<>>, now_ms, ord)
                w == cleanup_worker_actors(h.s, h.keys, now_ms, ord)
            IN [s |-> [w.s EXCEPT !.cleanup_future =
                                      Some([keys |-> w.keys, done |-> FALSE])],
                keys |-> w.keys, ran |-> TRUE]

\* Plumber::cleanup: [s, keys, ran]
cleanup(s, now_ms, ord) ==
    LET s1 == IF IsSome(s.cleanup_future) /\ Unwrap(s.cleanup_future).done
              THEN [s EXCEPT !.cleanup_future = None]
              ELSE s
    IN IF IsSome(s1.cleanup_future)
       THEN [s |-> s1, keys |-> <<>>, ran |-> FALSE]
       ELSE LET h == cleanup_host_actors(s1, <<>>, now_ms, ord)
                w == cleanup_worker_actors(h.s, h.keys, now_ms, ord)
            IN [s |-> IF w.keys # <<>>
                      THEN [w.s EXCEPT !.cleanup_future =
                                           Some([keys |-> w.keys, done |-> FALSE])]
                      ELSE w.s,
                keys |-> w.keys, ran |-> TRUE]

-----------------------------------------------------------------------------
(* Starting the next executions *)

\* What the plumber does with ActorPoll::Vm(vm_id, vm)
HandBack_Dropped(pool, vm_id) == pool

HandBack(pool, vm_id) == put_vm(pool, vm_id)

OfferVm_Peek(n, scope, key) ==
    LET vm_id == TopVm(n.pool)
        actor == n.actors[key]
    IN IF ActorCanStart(actor)
       THEN [actors |-> [n.actors EXCEPT ![key] = ActorStart(actor, vm_id)],
             pool |-> n.pool,
             started |-> Append(n.started, <<scope, key, vm_id>>),
             returned |-> n.returned]
       ELSE [actors |-> n.actors, pool |-> n.pool, started |-> n.started,
             returned |-> Append(n.returned, <<scope, key, vm_id>>)]

\* The body of the loops of poll_next_host_messages and
\* poll_next_worker_messages for one actor, with a vm taken from the pool.
\* n is [actors, pool, started, returned]: started and returned log the vms
\* the actors took and the vms they handed back.
OfferVm(n, scope, key) ==
    LET vm_id == TopVm(n.pool)
        pool == PopVm(n.pool)
        actor == n.actors[key]
    IN IF ActorCanStart(actor)
       THEN [actors |-> [n.actors EXCEPT ![key] = ActorStart(actor, vm_id)],
             pool |-> pool,
             started |-> Append(n.started, <<scope, key, vm_id>>),
             returned |-> n.returned]
       ELSE [actors |-> n.actors, pool |-> HandBack(pool, vm_id), started |-> n.started,
             returned |-> Append(n.returned, <<scope, key, vm_id>>)]

RECURSIVE PollNextLoop(_, _, _)
PollNextLoop(n, scope, order) ==
    IF order = <<>> THEN n
    ELSE IF HasVm(n.pool)
         THEN PollNextLoop(OfferVm(n, scope, Head(order)), scope, Tail(order))
         ELSE n   \* break

poll_next_host_messages_Idle(s, ord) ==
    [s |-> s, started |-> <<>>, returned |-> <<>>]

\* Plumber::poll_next_host_messages: [s, started, returned]
poll_next_host_messages(s, ord) ==
    LET r == PollNextLoop([actors |-> s.host_actors, pool |-> s.host_vm_pool,
                           started |-> <<>>, returned |-> <<>>],
                          Host, IterOrder(s.host_actors, ord.host))
    IN [s |-> [s EXCEPT !.host_actors = r.actors, !.host_vm_pool = r.pool],
        started |-> r.started, returned |-> r.returned]

RECURSIVE PollNextWorkersLoop_BreaksOut(_, _, _)
PollNextWorkersLoop_BreaksOut(n, ord, order) ==
    IF order = <<>> THEN n
    ELSE LET worker_id == Head(order)
         IN IF worker_id \in DOMAIN n.s.worker_vm_pools
            THEN LET r == PollNextLoop(
                              [actors |-> n.s.worker_actors[worker_id],
                               pool |-> n.s.worker_vm_pools[worker_id],
                               started |-> n.started, returned |-> n.returned],
                              worker_id,
                              IterOrder(n.s.worker_actors[worker_id], ord.actors[worker_id]))
                     m == [s |-> [n.s EXCEPT !.worker_actors[worker_id] = r.actors,
                                             !.worker_vm_pools[worker_id] = r.pool],
                           started |-> r.started, returned |-> r.returned]
                 IN IF HasVm(r.pool)
                    THEN PollNextWorkersLoop_BreaksOut(m, ord, Tail(order))
                    ELSE m
            ELSE PollNextWorkersLoop_BreaksOut(n, ord, Tail(order))

RECURSIVE PollNextWorkersLoop(_, _, _)
PollNextWorkersLoop(n, ord, order) ==
    IF order = <<>> THEN n
    ELSE LET worker_id == Head(order)
         IN IF worker_id \in DOMAIN n.s.worker_vm_pools
            THEN LET r == PollNextLoop(
                              [actors |-> n.s.worker_actors[worker_id],
                               pool |-> n.s.worker_vm_pools[worker_id],
                               started |-> n.started, returned |-> n.returned],
                              worker_id,
                              IterOrder(n.s.worker_actors[worker_id], ord.actors[worker_id]))
                 IN PollNextWorkersLoop(
                        [s |-> [n.s EXCEPT !.worker_actors[worker_id] = r.actors,
                                           !.worker_vm_pools[worker_id] = r.pool],
                         started |-> r.started, returned |-> r.returned],
                        ord, Tail(order))
            ELSE PollNextWorkersLoop(n, ord, Tail(order))

\* Plumber::poll_next_worker_messages: [s, started, returned]
poll_next_worker_messages(n, ord) ==
    PollNextWorkersLoop(n, ord, IterOrder(n.s.worker_actors, ord.workers))

-----------------------------------------------------------------------------
(* Plumber::poll *)

Pending == [ready |-> FALSE, event |-> None]
Ready(event) == [ready |-> TRUE, event |-> Some(event)]

RECURSIVE ReingestPeers_Unchecked(_, _, _, _, _)
ReingestPeers_Unchecked(s, particle, local_peers, reg, now_ms) ==
    IF local_peers = <<>> THEN s
    ELSE LET r == get_or_create_actor(s, Head(local_peers), particle.signature,
                                      particle, reg)
             t == IF r.ok
                  THEN wake(DeliverToActor(r.s, Head(local_peers), particle.signature,
                                           particle, FALSE))
                  ELSE r.s
         IN ReingestPeers_Unchecked(t, particle, Tail(local_peers), reg, now_ms)

RECURSIVE ReingestPeers(_, _, _, _, _)
ReingestPeers(s, particle, local_peers, reg, now_ms) ==
    IF local_peers = <<>> THEN s
    ELSE ReingestPeers(ingest(s, particle, FALSE, Head(local_peers), reg, now_ms),
                       particle, Tail(local_peers), reg, now_ms)

\* The loop over local_effects at the end of poll
RECURSIVE ReingestEffects(_, _, _, _)
ReingestEffects(s, local_effects, reg, now_ms) ==
    IF local_effects = <<>> THEN s
    ELSE ReingestEffects(
             ReingestPeers(s, Head(local_effects).particle,
                           Head(local_effects).next_peers, reg, now_ms),
             Tail(local_effects), reg, now_ms)

\* self.events.extend(remote_effects.into_iter().map(Ok))
BufferEvents(s, remote_effects) ==
    [s EXCEPT !.events = @ \o [i \in 1 .. Len(remote_effects) |->
                                  RemoteRoutingEffects(remote_effects[i].particle,
                                                       remote_effects[i].next_peers)]]

\* What a tick that returns at the event check did: nothing
NoTick == [completed |-> {}, keys |-> <<>>, ran |-> FALSE, started |-> <<>>,
           returned |-> <<>>, local |-> <<>>, remote |-> <<>>]

PopEvent_Newest(s) ==
    [s |-> [s EXCEPT !.events = SubSeq(@, 1, Len(@) - 1)],
     ret |-> Ready(s.events[Len(s.events)]), tick |-> NoTick]

\* if let Some(event) = self.events.pop_front() { return Poll::Ready(event) }
PopEvent(s) ==
    [s |-> [s EXCEPT !.events = Tail(@)], ret |-> Ready(Head(s.events)), tick |-> NoTick]

poll_ReingestsFirst(s0, reg, now_ms, ord) ==
    LET s1 == poll_pools([s0 EXCEPT !.waker = Some("cx"), !.woken = FALSE])
    IN IF s1.events # <<>>
       THEN PopEvent(s1)
       ELSE LET a == poll_host_actors([s |-> s1, remote |-> <<>>, local |-> <<>>,
                                       completed |-> {}], reg, ord)
                b == poll_workers_actors(a, reg, ord)
                c == cleanup(b.s, now_ms, ord)
                r == ReingestEffects(c.s, b.local, reg, now_ms)
                h == poll_next_host_messages(r, ord)
                w == poll_next_worker_messages(h, ord)
            IN [s |-> BufferEvents(w.s, b.remote), ret |-> Pending,
                tick |-> [completed |-> b.completed, keys |-> c.keys, ran |-> c.ran,
                          started |-> w.started, returned |-> w.returned,
                          local |-> b.local,
                          remote |-> b.remote]]

poll_StartsFirst(s0, reg, now_ms, ord) ==
    LET s1 == poll_pools([s0 EXCEPT !.waker = Some("cx"), !.woken = FALSE])
    IN IF s1.events # <<>>
       THEN PopEvent(s1)
       ELSE LET h == poll_next_host_messages(s1, ord)
                w == poll_next_worker_messages(h, ord)
                a == poll_host_actors([s |-> w.s, remote |-> <<>>, local |-> <<>>,
                                       completed |-> {}], reg, ord)
                b == poll_workers_actors(a, reg, ord)
                c == cleanup(b.s, now_ms, ord)
                r == ReingestEffects(c.s, b.local, reg, now_ms)
            IN [s |-> BufferEvents(r, b.remote), ret |-> Pending,
                tick |-> [completed |-> b.completed, keys |-> c.keys, ran |-> c.ran,
                          started |-> w.started, returned |-> w.returned,
                          local |-> b.local,
                          remote |-> b.remote]]

\* Plumber::poll under iteration orders ord: [s, ret, tick]
poll(s0, reg, now_ms, ord) ==
    LET s1 == poll_pools([s0 EXCEPT !.waker = Some("cx"), !.woken = FALSE])
    IN IF s1.events # <<>>
       THEN PopEvent(s1)
       ELSE LET a == poll_host_actors([s |-> s1, remote |-> <<>>, local |-> <<>>,
                                       completed |-> {}], reg, ord)
                b == poll_workers_actors(a, reg, ord)
                c == cleanup(b.s, now_ms, ord)
                h == poll_next_host_messages(c.s, ord)
                w == poll_next_worker_messages(h, ord)
                r == ReingestEffects(w.s, b.local, reg, now_ms)
            IN [s |-> BufferEvents(r, b.remote), ret |-> Pending,
                tick |-> [completed |-> b.completed, keys |-> c.keys, ran |-> c.ran,
                          started |-> w.started, returned |-> w.returned,
                          local |-> b.local,
                          remote |-> b.remote]]

-----------------------------------------------------------------------------
(* The record store of the Kademlia behaviour                              *)
(* (src/janus/server/src/kademlia/memory_store.rs)                         *)

\* MemoryStoreConfig::default(): 1024 records, 65 * 1024 bytes, 1024 provided
\* keys and K_VALUE (20) providers per key in the source, scaled down so that
\* the store of the model reaches each of them
max_records == 2
max_value_bytes == 2
max_provided_keys == 2
max_providers_per_key == 2

MaxStoreCalls == 4             \* calls made on the store in one behaviour

LocalId == "me"                \* the PeerId handed to MemoryStore::new
PeerIds == {LocalId, "p1", "p2"}
RecordKeys == {"k1", "k2", "k3"}
Instants == {None, Some(1)}    \* expires: Option<Instant>

\* Result<()>
Ok == "Ok"
MaxRecords == "MaxRecords"
ValueTooLarge == "ValueTooLarge"
MaxProvidedKeys == "MaxProvidedKeys"

\* kbucket::Key::new hashes the bytes of a record key or of a peer id with
\* SHA-256; here the digest is three bits wide and no two inputs collide
Sha256(x) ==
    CASE x = "k1" -> 5 [] x = "k2" -> 3 [] x = "k3" -> 0
      [] x = "me" -> 6 [] x = "p1" -> 1 [] x = "p2" -> 4

RECURSIVE Xor(_, _)
Xor(a, b) ==
    IF a = 0 /\ b = 0 THEN 0
    ELSE (((a % 2) + (b % 2)) % 2) + 2 * Xor(a \div 2, b \div 2)

\* kbucket::Key::distance: the XOR of the two digests, compared as a number
distance(a, b) == Xor(Sha256(a), Sha256(b))

\* ProviderRecord { key, provider, expires }; two are equal when all three
\* fields are
ProviderRecords == [key : RecordKeys, provider : PeerIds, expires : Instants]

\* Record { key, value, .. }.  The value is a string of bytes; parses is what
\* expand_record_set makes of it: not a record set ("no"), the records of
\* a set ("set"), or a set that cannot be parsed ("error")
Bytes(n) == [i \in 1 .. n |-> 0]
Values == {Bytes(n) : n \in (max_value_bytes - 1) .. (max_value_bytes + 1)}
Records == [key : RecordKeys, value : Values, parses : {"no", "set", "error"}]

\* expand_record_set(record): Err(record) for a plain record, Ok(Ok(records))
\* for a record set, Ok(Err(e)) for one that cannot be parsed
expand_record_set(record) ==
    CASE record.parses = "no" -> [is_set |-> FALSE, ok |-> TRUE, records |-> {record}]
      [] record.parses = "set" ->
             [is_set |-> TRUE, ok |-> TRUE,
              records |-> {[record EXCEPT !.parses = "no"],
                           [record EXCEPT !.parses = "no", !.value = <<>>]}]
      [] record.parses = "error" -> [is_set |-> TRUE, ok |-> FALSE, records |-> {}]

\* reduce_record_set(key, set): the one record that stands for the set
reduce_record_set(key, set) == [key |-> key, set |-> set]

\* MemoryStore::with_config
MemoryStoreNew == [records |-> EmptyMap, providers |-> EmptyMap, provided |-> {}]

\* The store is not called
NoStoreCalls == memory_store = MemoryStoreNew /\ calls = <<>>

\* MemoryStore::insert
insert(set, record) ==
    LET r == expand_record_set(record)
    IN IF r.is_set
       THEN IF r.ok THEN [ret |-> Ok, set |-> set \cup r.records]
            ELSE [ret |-> MaxRecords, set |-> set]
       ELSE [ret |-> Ok, set |-> set \cup {record}]

\* RecordStore::get
get(st, k) ==
    IF k \in DOMAIN st.records THEN Some(reduce_record_set(k, st.records[k])) ELSE None

\* put's test of the size of the value
ValueFits(r) == ~(Len(r.value) >= max_value_bytes)

\* RecordStore::put
put(st, r) ==
    IF ~ValueFits(r) THEN [ret |-> ValueTooLarge, st |-> st]
    ELSE LET num_records == Cardinality(DOMAIN st.records)
         IN IF r.key \in DOMAIN st.records
            THEN LET i == insert(st.records[r.key], r)
                 IN IF i.ret # Ok THEN [ret |-> i.ret, st |-> st]
                    ELSE [ret |-> Ok, st |-> [st EXCEPT !.records[r.key] = i.set]]
            ELSE IF num_records >= max_records THEN [ret |-> MaxRecords, st |-> st]
            ELSE LET i == insert({}, r)
                 IN IF i.ret # Ok THEN [ret |-> i.ret, st |-> st]
                    ELSE [ret |-> Ok,
                          st |-> [st EXCEPT !.records = MapPut(@, r.key, i.set)]]

\* RecordStore::remove
remove(st, k) == [st EXCEPT !.records = MapRemove(@, k)]

\* providers.iter().position(|p| p.provider == provider), counted from 1;
\* 0 is None
PositionOfProvider(ps, provider) ==
    IF \E i \in DOMAIN ps : ps[i].provider = provider
    THEN CHOOSE i \in DOMAIN ps :
             /\ ps[i].provider = provider
             /\ \A j \in 1 .. (i - 1) : ps[j].provider # provider
    ELSE 0

PositionOfFarther_First(ps, record) == IF ps = <<>> THEN 0 ELSE 1

\* The first provider that is farther from the key than that of the record
PositionOfFarther(ps, record) ==
    LET farther(p) == distance(record.provider, record.key) < distance(p.provider, record.key)
    IN IF \E i \in DOMAIN ps : farther(ps[i])
       THEN CHOOSE i \in DOMAIN ps :
                farther(ps[i]) /\ \A j \in 1 .. (i - 1) : ~farther(ps[j])
       ELSE 0

InsertAt(seq, i, x) == SubSeq(seq, 1, i - 1) \o <<x>> \o SubSeq(seq, i, Len(seq))
RemoveAt(seq, i) == SubSeq(seq, 1, i - 1) \o SubSeq(seq, i + 1, Len(seq))

\* self.provided.insert(record.clone()) when the local peer is the provider
ProvideLocal(st, record) ==
    IF LocalId = record.provider
    THEN [st EXCEPT !.provided = @ \cup {record}]
    ELSE st

AddNewProvider_OnlyBefore(st, record) ==
    LET key == record.key
        i == PositionOfFarther(st.providers[key], record)
    IN IF i # 0
       THEN [ProvideLocal(st, record) EXCEPT
                !.providers[key] = SubSeq(InsertAt(@, i, record), 1, max_providers_per_key)]
       ELSE st

\* The branch of add_provider for a provider the key does not have
AddNewProvider(st, record) ==
    LET key == record.key
        i == PositionOfFarther(st.providers[key], record)
    IN IF i # 0
       THEN LET s1 == [ProvideLocal(st, record) EXCEPT
                          !.providers[key] = InsertAt(@, i, record)]
                len == Len(s1.providers[key])
            IN IF len > max_providers_per_key
               THEN [s1 EXCEPT !.providers[key] = SubSeq(@, 1, len - 1),
                               !.provided = @ \ {s1.providers[key][len]}]
               ELSE s1
       ELSE IF Len(st.providers[key]) < max_providers_per_key
       THEN [ProvideLocal(st, record) EXCEPT !.providers[key] = Append(@, record)]
       ELSE st

add_provider_AnyKey(st, record) ==
    LET s1 == IF record.key \notin DOMAIN st.providers
              THEN [st EXCEPT !.providers = MapPut(@, record.key, <<>>)]
              ELSE st
        i == PositionOfProvider(s1.providers[record.key], record.provider)
    IN [ret |-> Ok,
        st |-> IF i # 0
               THEN [s1 EXCEPT !.providers[record.key][i] = record]
               ELSE AddNewProvider(s1, record)]

\* RecordStore::add_provider
add_provider(st, record) ==
    LET num_keys == Cardinality(DOMAIN st.providers)
        vacant == record.key \notin DOMAIN st.providers
    IN IF vacant /\ max_provided_keys = num_keys
       THEN [ret |-> MaxProvidedKeys, st |-> st]
       ELSE LET s1 == IF vacant
                      THEN [st EXCEPT !.providers = MapPut(@, record.key, <<>>)]
                      ELSE st
                i == PositionOfProvider(s1.providers[record.key], record.provider)
            IN [ret |-> Ok,
                st |-> IF i # 0
                       THEN [s1 EXCEPT !.providers[record.key][i] = record]
                       ELSE AddNewProvider(s1, record)]

\* RecordStore::providers
providers(st, key) == IF key \in DOMAIN st.providers THEN st.providers[key] ELSE <<>>

\* RecordStore::provided
provided(st) == st.provided

\* RecordStore::remove_provider
remove_provider(st, key, provider) ==
    IF key \notin DOMAIN st.providers THEN st
    ELSE LET i == PositionOfProvider(st.providers[key], provider)
             s1 == IF i # 0
                   THEN [st EXCEPT !.providers[key] = RemoveAt(@, i),
                                   !.provided = @ \ {st.providers[key][i]}]
                   ELSE st
         IN IF s1.providers[key] = <<>>
            THEN [s1 EXCEPT !.providers = MapRemove(@, key)]
            ELSE s1

-----------------------------------------------------------------------------
(* The state machine *)

\* The environment of a node with workers ids, each set up (deal, runtime
\* handle, key pair), of which `active` are activated: the particles peers send
\* it (budget of them in one behaviour), whether they come with a service
\* function, and how AVM calls end
Environment(ids, active, particles, functions, outcomes) ==
    [ids |-> ids, active |-> active, deals |-> ids, runtimes |-> ids,
     keypairs |-> {Host} \cup ids,
     particles |-> particles, functions |-> functions, outcomes |-> outcomes,
     sent |-> 0, budget |-> MaxIngests, pool_calls |-> 0,
     debug_assertions |-> FALSE,
     builtins |-> {}, tasks |-> <<>>]

SigsOf(e) == {p.signature : p \in e.particles}

\* Plumber::new
PlumberNew ==
    [events |-> <<>>,
     host_actors |-> EmptyMap,
     host_vm_pool |-> VmPoolNew(HostPoolSize),
     worker_actors |-> EmptyMap,
     worker_vm_pools |-> EmptyMap,
     waker |-> None,
     woken |-> FALSE,       \* the waker was woken during the last call
     cleanup_future |-> None,
     data_store |-> EmptyMap,
     panicked |-> FALSE]    \* a call on the plumber panicked: the thread unwinds

\* A call: at is now_ms() when it was made, ret and tick are poll's
NoCall == [op |-> "new", at |-> 0, particle |-> None, function |-> FALSE,
           scope |-> Host, ret |-> Pending, tick |-> NoTick]

\* The mailbox of the actor a particle is routed to, <<>> when there is none
MailboxAt(s, scope, key) ==
    IF scope = Host
    THEN IF key \in DOMAIN s.host_actors THEN s.host_actors[key].mailbox ELSE <<>>
    ELSE IF scope \in DOMAIN s.worker_actors /\ key \in DOMAIN s.worker_actors[scope]
         THEN s.worker_actors[scope][key].mailbox ELSE <<>>

\* plumber.ingest(particle, function, peer_scope), called from outside
Ingest(particle, function, peer_scope) ==
    LET s == ingest([pl EXCEPT !.woken = FALSE], particle, function, peer_scope, env, now)
    IN /\ env.sent < env.budget
       /\ Len(s.events) <= MaxEvents
       /\ Len(MailboxAt(s, peer_scope, particle.signature)) <= MaxMailbox
       /\ pl' = s
       /\ last' = [NoCall EXCEPT !.op = "ingest", !.at = now, !.particle = Some(particle),
                                 !.function = function, !.scope = peer_scope]
       /\ env' = [env EXCEPT !.sent = @ + 1]
       /\ UNCHANGED <<now, memory_store, calls>>

CreateWorkerPool(worker_id, thread_count) ==
    /\ env.pool_calls < MaxPoolCalls
    /\ pl' = create_worker_pool([pl EXCEPT !.woken = FALSE], worker_id, thread_count)
    /\ last' = [NoCall EXCEPT !.op = "create_worker_pool", !.at = now, !.scope = worker_id]
    /\ env' = [env EXCEPT !.pool_calls = @ + 1]
    /\ UNCHANGED <<now, memory_store, calls>>

RemoveWorkerPool(worker_id) ==
    /\ env.pool_calls < MaxPoolCalls
    /\ pl' = remove_worker_pool([pl EXCEPT !.woken = FALSE], worker_id)
    /\ last' = [NoCall EXCEPT !.op = "remove_worker_pool", !.at = now, !.scope = worker_id]
    /\ env' = [env EXCEPT !.pool_calls = @ + 1]
    /\ UNCHANGED <<now, memory_store, calls>>

\* The orders in which a tick may iterate the HashMaps of s
Orders(s) ==
    [host : Perms(DOMAIN s.host_actors),
     workers : Perms(DOMAIN s.worker_actors),
     actors : Choices([w \in DOMAIN s.worker_actors |->
                          Perms(DOMAIN s.worker_actors[w])])]

\* plumber.poll(cx); the HashMaps are iterated in any order
Poll ==
    \E ord \in Orders(pl) :
        LET r == poll(pl, env, now, ord)
        IN /\ pl' = r.s
           /\ last' = [NoCall EXCEPT !.op = "poll", !.at = now, !.ret = r.ret,
                                     !.tick = r.tick]
           /\ UNCHANGED <<now, env, memory_store, calls>>

-----------------------------------------------------------------------------
(* The environment *)

\* The clock advances
Tick ==
    /\ now < MaxNow
    /\ now' = now + 1
    /\ UNCHANGED <<pl, env, last, memory_store, calls>>

\* The actors of a scope, EmptyMap when the scope has no bucket
ActorsOf(s, scope) ==
    IF scope = Host THEN s.host_actors
    ELSE IF scope \in DOMAIN s.worker_actors THEN s.worker_actors[scope] ELSE EmptyMap

\* The AVM call of an actor's execution finishes; it names a local next peer
\* only while that peer's mailbox for the particle has room
AvmFinish(scope, key, outcome) ==
    /\ key \in DOMAIN ActorsOf(pl, scope)
    /\ \A i \in DOMAIN outcome.next_peers :
           Len(MailboxAt(pl, outcome.next_peers[i], key)) < MaxMailbox
    /\ LET actor == ActorsOf(pl, scope)[key]
           done == [actor EXCEPT !.current[1].ready = TRUE,
                                 !.current[1].vm_lost = outcome.vm_lost,
                                 !.current[1].next_peers = outcome.next_peers]
       IN /\ IsSome(actor.current)
          /\ ~actor.current[1].ready
          /\ pl' = IF scope = Host THEN [pl EXCEPT !.host_actors[key] = done]
                   ELSE [pl EXCEPT !.worker_actors[scope][key] = done]
    /\ UNCHANGED <<now, env, last, memory_store, calls>>

\* The pool of a scope, as an Option
PoolOf(s, scope) ==
    IF scope = Host THEN Some(s.host_vm_pool)
    ELSE IF scope \in DOMAIN s.worker_vm_pools THEN Some(s.worker_vm_pools[scope])
         ELSE None

\* The creation future of a vm of the scope's pool becomes ready
VmReady(scope) ==
    /\ IsSome(PoolOf(pl, scope))
    /\ \E vm_id \in Unwrap(PoolOf(pl, scope)).creating :
          LET made == VmPoolCreated(Unwrap(PoolOf(pl, scope)), vm_id)
          IN pl' = IF scope = Host THEN [pl EXCEPT !.host_vm_pool = made]
                   ELSE [pl EXCEPT !.worker_vm_pools[scope] = made]
    /\ UNCHANGED <<now, env, last, memory_store, calls>>

\* data_store.batch_cleanup_data(keys): the store counts, per key, how often
\* it was asked to clean it
BatchCleanupData(store, keys) ==
    LET S == {keys[i] : i \in DOMAIN keys}
        times(k) == Cardinality({i \in DOMAIN keys : keys[i] = k})
    IN [k \in (DOMAIN store) \cup S |->
           (IF k \in DOMAIN store THEN store[k] ELSE 0) + times(k)]

\* The batch cleanup of the data store finishes
CleanupFinish ==
    /\ IsSome(pl.cleanup_future)
    /\ ~Unwrap(pl.cleanup_future).done
    /\ pl' = [pl EXCEPT !.cleanup_future[1].done = TRUE,
                        !.data_store = BatchCleanupData(@, Unwrap(pl.cleanup_future).keys)]
    /\ UNCHANGED <<now, env, last, memory_store, calls>>

\* A worker is activated or deactivated in the registry
Activate(worker_id) ==
    /\ worker_id \notin env.active
    /\ env' = [env EXCEPT !.active = @ \cup {worker_id}]
    /\ UNCHANGED <<now, pl, last, memory_store, calls>>

Deactivate(worker_id) ==
    /\ worker_id \in env.active
    /\ env' = [env EXCEPT !.active = @ \ {worker_id}]
    /\ UNCHANGED <<now, pl, last, memory_store, calls>>

-----------------------------------------------------------------------------
(* Scheduling: the host and one worker, whose pool comes and goes *)

Init ==
    /\ now = 0
    /\ pl = PlumberNew
    /\ env = Environment({"w1"}, {"w1"}, {PA(0), PA(1), PB}, {FALSE},
                         {Outcome(FALSE, <<>>), Outcome(TRUE, <<>>)})
    /\ last = NoCall
    /\ NoStoreCalls

Next ==
    \/ \E p \in env.particles, f \in env.functions, sc \in {Host} \cup env.ids :
          Ingest(p, f, sc)
    \/ \E w \in env.ids, n \in 1 .. MaxThreads : CreateWorkerPool(w, n)
    \/ \E w \in env.ids : RemoveWorkerPool(w)
    \/ Poll
    \/ Tick
    \/ \E sc \in {Host} \cup env.ids, k \in SigsOf(env), o \in env.outcomes :
          AvmFinish(sc, k, o)
    \/ \E sc \in {Host} \cup env.ids : VmReady(sc)
    \/ CleanupFinish

Spec == Init /\ [][Next]_vars

-----------------------------------------------------------------------------
(* Admission: what ingest lets in.  Worker w1 is created, not activated; peers
   send signed and unsigned particles, with and without a service function *)

InitIngest ==
    /\ now = 0
    /\ pl = PlumberNew
    /\ env = Environment({"w1"}, {}, {PA(0), PB, PM, PX}, BOOLEAN,
                         {Outcome(FALSE, <<>>)})
    /\ last = NoCall
    /\ NoStoreCalls

NextIngest ==
    \/ \E p \in env.particles, f \in env.functions, sc \in {Host} \cup env.ids :
          Ingest(p, f, sc)
    \/ \E w \in env.ids : Activate(w)
    \/ \E w \in env.ids : Deactivate(w)
    \/ Poll
    \/ Tick
    \/ \E sc \in {Host} \cup env.ids, k \in SigsOf(env), o \in env.outcomes :
          AvmFinish(sc, k, o)
    \/ \E sc \in {Host} \cup env.ids : VmReady(sc)

SpecIngest == InitIngest /\ [][NextIngest]_vars

-----------------------------------------------------------------------------
(* Progress: the host alone, polled again and again.  The executor keeps
   calling poll as long as a call has something to do, a vm whose creation
   has started becomes ready, and an AVM call that has started ends *)

InitLive ==
    /\ now = 0
    /\ pl = PlumberNew
    /\ env = Environment({}, {}, {PA(0), PA(1)}, {FALSE}, {Outcome(FALSE, <<>>)})
    /\ last = NoCall
    /\ NoStoreCalls

AvmFinishes ==
    \E sc \in {Host} \cup env.ids, k \in SigsOf(env), o \in env.outcomes :
        AvmFinish(sc, k, o)

VmsGetReady == \E sc \in {Host} \cup env.ids : VmReady(sc)

NextLive ==
    \/ \E p \in env.particles, f \in env.functions, sc \in {Host} \cup env.ids :
          Ingest(p, f, sc)
    \/ Poll
    \/ Tick
    \/ AvmFinishes
    \/ VmsGetReady
    \/ CleanupFinish

\* A call of poll would change something: ENABLED <<Poll>>_vars, spelled out
PollHasWork ==
    \E ord \in Orders(pl) :
        LET r == poll(pl, env, now, ord)
        IN \/ r.s # pl
           \/ last # [NoCall EXCEPT !.op = "poll", !.at = now, !.ret = r.ret,
                                    !.tick = r.tick]

\* WF_vars(Poll), with ENABLED spelled out
PollIsCalled == []<>(~PollHasWork) \/ []<><<Poll>>_vars

SpecLive ==
    /\ InitLive
    /\ [][NextLive]_vars
    /\ PollIsCalled
    /\ WF_vars(AvmFinishes)
    /\ WF_vars(VmsGetReady)

\* The host and a worker without a pool, with one particle more than there
\* are keys in a cleanup pass; the data store finishes every batch it is given
InitCleanup ==
    /\ now = 0
    /\ pl = PlumberNew
    /\ env = [Environment({"w1"}, {"w1"}, {PA(0), PB}, {FALSE}, {Outcome(FALSE, <<>>)})
                 EXCEPT !.budget = MAX_CLEANUP_KEYS_SIZE + 1]
    /\ last = NoCall
    /\ NoStoreCalls

NextCleanup ==
    \/ \E p \in env.particles, f \in env.functions, sc \in {Host} \cup env.ids :
          Ingest(p, f, sc)
    \/ Poll
    \/ Tick
    \/ AvmFinishes
    \/ VmsGetReady
    \/ CleanupFinish

SpecCleanup ==
    /\ InitCleanup
    /\ [][NextCleanup]_vars
    /\ PollIsCalled
    /\ WF_vars(AvmFinishes)
    /\ WF_vars(VmsGetReady)
    /\ WF_vars(CleanupFinish)

\* The host runs particles whose executions name next peers: the host itself,
\* the worker w1 of this node (which may get deactivated) and a remote peer
InitRouting ==
    /\ now = 0
    /\ pl = PlumberNew
    /\ env = Environment({"w1"}, {"w1"}, {PA(0), PB}, {FALSE},
                         {Outcome(FALSE, <<>>), Outcome(FALSE, <<RemotePeer>>),
                          Outcome(FALSE, <<"w1", RemotePeer>>),
                          Outcome(FALSE, <<Host, "w1">>)})
    /\ last = NoCall
    /\ NoStoreCalls

NextRouting ==
    \/ \E p \in env.particles, f \in env.functions : Ingest(p, f, Host)
    \/ Poll
    \/ Tick
    \/ AvmFinishes
    \/ VmsGetReady
    \/ Deactivate("w1")

SpecRouting == InitRouting /\ [][NextRouting]_vars

\* The host is sent a particle with a ttl of one millisecond and one whose
\* timestamp + ttl is beyond the largest time
InitDeadline ==
    /\ now = 0
    /\ pl = PlumberNew
    /\ env = Environment({}, {}, {PA(0), PF}, {FALSE}, {Outcome(FALSE, <<>>)})
    /\ last = NoCall
    /\ NoStoreCalls

NextDeadline ==
    \/ \E p \in env.particles, f \in env.functions : Ingest(p, f, Host)
    \/ Poll
    \/ Tick
    \/ AvmFinishes
    \/ VmsGetReady
    \/ CleanupFinish

SpecDeadline == InitDeadline /\ [][NextDeadline]_vars

\* A node on which worker w1 is activated without being set up: the registry
\* has no deal for it, or no runtime handle, or the key storage has no key
\* pair.  Worker w2 is set up.  The build has debug assertions or has none.
Misconfigured == {"deal", "runtime", "keypair"}

InitReject ==
    /\ now = 0
    /\ pl = PlumberNew
    /\ \E missing \in Misconfigured, debug \in BOOLEAN :
           env = [Environment(Workers, Workers, {PA(0), PB}, {FALSE, TRUE},
                              {Outcome(FALSE, <<>>)})
                     EXCEPT !.deals = IF missing = "deal" THEN {"w2"} ELSE @,
                            !.runtimes = IF missing = "runtime" THEN {"w2"} ELSE @,
                            !.keypairs = IF missing = "keypair" THEN {Host, "w2"} ELSE @,
                            !.debug_assertions = debug]
    /\ last = NoCall
    /\ NoStoreCalls

\* A panic in a call on the plumber unwinds the thread that owns it: no call
\* is made on it afterwards
NextReject ==
    \/ ~pl.panicked /\ \E p \in env.particles, f \in env.functions, scope \in Scopes :
                           Ingest(p, f, scope)
    \/ ~pl.panicked /\ Poll
    \/ Tick
    \/ AvmFinishes
    \/ VmsGetReady
    \/ CleanupFinish

SpecReject == InitReject /\ [][NextReject]_vars

\* A node on which worker w1 is activated without a deal, so that ingest for
\* it leaves an empty bucket, and worker w2 is set up without a pool; a pool
\* is created for w1 and removed, and the peers send one particle more than a
\* cleanup pass collects
InitBuckets ==
    /\ now = 0
    /\ pl = PlumberNew
    /\ \E debug \in BOOLEAN :
           env = [Environment(Workers, Workers, {PA(0), PB}, {FALSE}, {Outcome(FALSE, <<>>)})
                     EXCEPT !.deals = {"w2"},
                            !.budget = MAX_CLEANUP_KEYS_SIZE + 1,
                            !.debug_assertions = debug]
    /\ last = NoCall
    /\ NoStoreCalls

NextBuckets ==
    \/ ~pl.panicked /\ \E p \in env.particles : Ingest(p, FALSE, Host)
    \/ ~pl.panicked /\ \E w \in Workers : Ingest(PA(0), FALSE, w)
    \/ ~pl.panicked /\ CreateWorkerPool("w1", 1)
    \/ ~pl.panicked /\ RemoveWorkerPool("w1")
    \/ ~pl.panicked /\ Poll
    \/ Tick
    \/ AvmFinishes
    \/ VmsGetReady
    \/ CleanupFinish

SpecBuckets == InitBuckets /\ [][NextBuckets]_vars

\* A node with two workers, each given a pool of one vm; the peers send the
\* workers one particle more than there are workers
InitWorkers ==
    /\ now = 0
    /\ pl = PlumberNew
    /\ env = [Environment(Workers, Workers, {PA(0), PB}, {FALSE}, {Outcome(FALSE, <<>>)})
                 EXCEPT !.budget = Cardinality(Workers) + 1]
    /\ last = NoCall
    /\ NoStoreCalls

NextWorkers ==
    \/ \E p \in env.particles, w \in Workers : Ingest(p, FALSE, w)
    \/ \E w \in Workers : CreateWorkerPool(w, 1)
    \/ Poll
    \/ Tick
    \/ AvmFinishes
    \/ VmsGetReady
    \/ CleanupFinish

SpecWorkers == InitWorkers /\ [][NextWorkers]_vars

\* A worker whose pool is created and removed while the peers send it
\* particles.  Poll is called as long as a call has something to do, the
\* clock goes on, every vm gets ready, every execution and every batch ends
InitRemoved ==
    /\ now = 0
    /\ pl = PlumberNew
    /\ env = Environment({"w1"}, {"w1"}, {PA(0), PB}, {FALSE}, {Outcome(FALSE, <<>>)})
    /\ last = NoCall
    /\ NoStoreCalls

NextRemoved ==
    \/ \E p \in env.particles : Ingest(p, FALSE, "w1")
    \/ CreateWorkerPool("w1", 1)
    \/ RemoveWorkerPool("w1")
    \/ Poll
    \/ Tick
    \/ AvmFinishes
    \/ VmsGetReady
    \/ CleanupFinish

SpecRemoved ==
    /\ InitRemoved
    /\ [][NextRemoved]_vars
    /\ PollIsCalled
    /\ WF_vars(Tick)
    /\ WF_vars(AvmFinishes)
    /\ WF_vars(VmsGetReady)
    /\ WF_vars(CleanupFinish)

\* The builtins and the tasks spawned on the runtime: env.builtins holds the
\* names of the registered services, env.tasks the tasks in the order they
\* were spawned
Services == {"s1", "s2"}

\* builtins.extend(service, functions, fallback)
BuiltinsExtend(builtins, service) == builtins \cup {service}

\* builtins.remove(&service)
BuiltinsRemove(builtins, service) == builtins \ {service}

\* task::Builder::new().name(..).spawn(task)
SpawnTask(reg, name, service) ==
    [reg EXCEPT !.tasks = Append(@, [name |-> name, service |-> service,
                                     finished |-> FALSE])]

\* Plumber::add_service
add_service(reg, service) == SpawnTask(reg, "Add service", service)

\* Plumber::remove_service
remove_service(reg, service) == SpawnTask(reg, "Remove service", service)

AddService(service) ==
    /\ Len(env.tasks) < MaxServiceCalls
    /\ env' = add_service(env, service)
    /\ last' = [NoCall EXCEPT !.op = "add_service", !.at = now]
    /\ UNCHANGED <<now, pl, memory_store, calls>>

RemoveService(service) ==
    /\ Len(env.tasks) < MaxServiceCalls
    /\ env' = remove_service(env, service)
    /\ last' = [NoCall EXCEPT !.op = "remove_service", !.at = now]
    /\ UNCHANGED <<now, pl, memory_store, calls>>

\* The runtime runs one of the spawned tasks to its end; it is free to take
\* them in any order
TaskRuns ==
    \E i \in DOMAIN env.tasks :
        LET task == env.tasks[i]
        IN /\ ~task.finished
           /\ env' = [env EXCEPT
                         !.builtins = IF task.name = "Add service"
                                      THEN BuiltinsExtend(@, task.service)
                                      ELSE BuiltinsRemove(@, task.service),
                         !.tasks[i].finished = TRUE]
           /\ UNCHANGED <<now, pl, last, memory_store, calls>>

InitServices ==
    /\ now = 0
    /\ pl = PlumberNew
    /\ env = Environment({}, {}, {PA(0)}, {FALSE}, {Outcome(FALSE, <<>>)})
    /\ last = NoCall
    /\ NoStoreCalls

NextServices ==
    \/ \E service \in Services : AddService(service)
    \/ \E service \in Services : RemoveService(service)
    \/ TaskRuns

SpecServices == InitServices /\ [][NextServices]_vars

\* A call on the store and what it returned
StoreCall(op, key, arg, ret) == [op |-> op, key |-> key, arg |-> arg, ret |-> ret]

\* store.add_provider(record)
AddProvider(record) ==
    /\ Len(calls) < MaxStoreCalls
    /\ LET r == add_provider(memory_store, record)
       IN /\ memory_store' = r.st
          /\ calls' = Append(calls, StoreCall("add_provider", record.key, record, r.ret))
    /\ UNCHANGED <<now, pl, env, last>>

\* store.remove_provider(&key, &provider)
RemoveProvider(key, provider) ==
    /\ Len(calls) < MaxStoreCalls
    /\ memory_store' = remove_provider(memory_store, key, provider)
    /\ calls' = Append(calls, StoreCall("remove_provider", key, provider, Ok))
    /\ UNCHANGED <<now, pl, env, last>>

\* store.put(r)
Put(r) ==
    /\ Len(calls) < MaxStoreCalls
    /\ LET p == put(memory_store, r)
       IN /\ memory_store' = p.st
          /\ calls' = Append(calls, StoreCall("put", r.key, r, p.ret))
    /\ UNCHANGED <<now, pl, env, last>>

\* store.remove(&k)
Remove(k) ==
    /\ Len(calls) < MaxStoreCalls
    /\ memory_store' = remove(memory_store, k)
    /\ calls' = Append(calls, StoreCall("remove", k, None, Ok))
    /\ UNCHANGED <<now, pl, env, last>>

\* store.get(&k)
Get(k) ==
    /\ Len(calls) < MaxStoreCalls
    /\ calls' = Append(calls, StoreCall("get", k, None, get(memory_store, k)))
    /\ UNCHANGED <<now, pl, env, last, memory_store>>

InitStore ==
    /\ now = 0
    /\ pl = PlumberNew
    /\ env = Environment({}, {}, {}, {}, {})
    /\ last = NoCall
    /\ NoStoreCalls

\* The provider records of a store
NextProviders ==
    \/ \E record \in ProviderRecords : AddProvider(record)
    \/ \E key \in RecordKeys, provider \in PeerIds : RemoveProvider(key, provider)

SpecProviders == InitStore /\ [][NextProviders]_vars

\* The records of a store
NextRecords ==
    \/ \E r \in Records : Put(r)
    \/ \E k \in RecordKeys : Remove(k)
    \/ \E k \in RecordKeys : Get(k)

SpecRecords == InitStore /\ [][NextRecords]_vars

-----------------------------------------------------------------------------
(* Properties *)

AllScopes == {Host} \cup env.ids

\* The vms of a scope's pool that executing actors of the scope hold
Borrowed(s, scope) ==
    Cardinality({k \in DOMAIN ActorsOf(s, scope) : ActorIsExecuting(ActorsOf(s, scope)[k])})

\* The vms of a pool being created or recreated
PendingCreation(pool) == Cardinality(pool.creating)

PoolBalanced(s, scope) ==
    LET pool == Unwrap(PoolOf(s, scope))
    IN free_vms(pool) + Borrowed(s, scope) + PendingCreation(pool) = pool.pool_size

\* A tick boundary: poll has returned and no call was made on the plumber since
TickBoundary == last.op = "poll"

\* C1: at every tick boundary, for the host pool and every worker pool,
\* free + borrowed + pending creation = capacity
C1_PoolsBalanced ==
    TickBoundary =>
        \A sc \in AllScopes : IsSome(PoolOf(pl, sc)) => PoolBalanced(pl, sc)

\* An actor map entry, and the executions an actor has in flight
ActorAt(s, scope, key) == ActorsOf(s, scope)[key]
StillExecuting(actor) == ActorIsExecuting(actor) /\ ~ActorCompleted(actor)

AtMostOneExecution ==
    \A sc \in AllScopes : \A k \in DOMAIN ActorsOf(pl, sc) :
        Len(ActorAt(pl, sc, k).current) <= 1

\* What a poll does to the actors whose execution is still running: it
\* starts nothing on them, and every vm an actor handed back in the tick is
\* in the free list of its pool, or with an actor that took it later in the tick
ExecutingLeftAlone ==
    /\ \A sc \in AllScopes : \A k \in DOMAIN ActorsOf(pl, sc) :
           StillExecuting(ActorAt(pl, sc, k)) =>
               /\ k \in DOMAIN ActorsOf(pl', sc)
               /\ ActorAt(pl', sc, k).current = ActorAt(pl, sc, k).current
               /\ \A i \in DOMAIN last'.tick.started :
                      <<last'.tick.started[i][1], last'.tick.started[i][2]>> # <<sc, k>>
    /\ \A i \in DOMAIN last'.tick.returned :
           LET sc == last'.tick.returned[i][1]
               vm_id == last'.tick.returned[i][3]
               free == Unwrap(PoolOf(pl', sc)).free
           IN \/ \E j \in DOMAIN free : free[j] = vm_id
              \/ \E j \in DOMAIN last'.tick.started :
                     /\ last'.tick.started[j][1] = sc
                     /\ last'.tick.started[j][3] = vm_id

\* C2: an actor never has more than one execution in flight, and a poll that
\* offers a vm to an actor that is executing starts nothing on it and puts
\* the vm back into the pool
C2_OneExecutionPerActor ==
    /\ []AtMostOneExecution
    /\ [][Poll => ExecutingLeftAlone]_vars

\* after a poll, an executing host actor with mail that was offered a vm in
\* this tick, started nothing and handed the vm back
C2_Witness ==
    /\ last.op = "poll"
    /\ ~last.ret.ready
    /\ \E k \in DOMAIN pl.host_actors :
           /\ ActorIsExecuting(pl.host_actors[k])
           /\ pl.host_actors[k].mailbox # <<>>
           /\ \A i \in DOMAIN last.tick.started : last.tick.started[i][2] # k
           /\ \E i \in DOMAIN last.tick.returned :
                  /\ last.tick.returned[i][1] = Host
                  /\ last.tick.returned[i][2] = k
                  /\ \E j \in DOMAIN pl.host_vm_pool.free :
                         pl.host_vm_pool.free[j] = last.tick.returned[i][3]

IsPrefix(a, b) == Len(a) <= Len(b) /\ SubSeq(b, 1, Len(a)) = a

\* The actor has started an execution in this step
StartedIn(before, after) ==
    /\ ActorIsExecuting(after)
    /\ ~ActorCompleted(after)
    /\ ~StillExecuting(before)

\* In one step of an actor, whatever the step: the mailbox only grows at its
\* end; and it only shrinks at its head, by the particle the actor starts
MailboxStep(before, after) ==
    IF StartedIn(before, after)
    THEN /\ before.mailbox # <<>>
         /\ Unwrap(after.current).particle = Head(before.mailbox)
         /\ IsPrefix(Tail(before.mailbox), after.mailbox)
    ELSE IsPrefix(before.mailbox, after.mailbox)

\* C3: an actor dequeues its particles in the order ingest appended them:
\* every step of an actor either appends to the end of its mailbox or starts
\* the particle at the head of it
C3_MailboxIsFifo ==
    [][\A sc \in AllScopes : \A k \in DOMAIN ActorsOf(pl, sc) :
          k \in DOMAIN ActorsOf(pl', sc) =>
              MailboxStep(ActorAt(pl, sc, k), ActorAt(pl', sc, k))]_vars

\* an actor that was sent two different particles has started, in the last
\* tick, the one that was sent first, and the other one waits
C3_Witness ==
    /\ last.op = "poll"
    /\ \E i \in DOMAIN last.tick.started :
           LET actor == ActorAt(pl, last.tick.started[i][1], last.tick.started[i][2])
           IN /\ ActorIsExecuting(actor)
              /\ actor.mailbox # <<>>
              /\ Unwrap(actor.current).particle # Head(actor.mailbox)

\* C10: an actor leaves its map only in a step at which its deadline has
\* passed and it has no execution still running
C10_RemovedOnlyExpiredAndIdle ==
    [][\A sc \in AllScopes : \A k \in DOMAIN ActorsOf(pl, sc) :
          k \notin DOMAIN ActorsOf(pl', sc) =>
              /\ now >= ActorAt(pl, sc, k).deadline
              /\ ~StillExecuting(ActorAt(pl, sc, k))]_vars

\* the cleanup of the last tick has removed an expired actor and has kept
\* another one, expired as well, whose execution is running
C10_Witness ==
    /\ last.op = "poll"
    /\ last.tick.keys # <<>>
    /\ \E sc \in AllScopes : \E k \in DOMAIN ActorsOf(pl, sc) :
           /\ last.at >= ActorAt(pl, sc, k).deadline
           /\ StillExecuting(ActorAt(pl, sc, k))
           /\ \A i \in DOMAIN last.tick.started :
                  <<last.tick.started[i][1], last.tick.started[i][2]>> # <<sc, k>>

\* The calls a peer can make to ingest
IngestCalls == env.particles \X env.functions \X AllScopes

DeadlinePassed(particle, now_ms) == particle.timestamp + particle.ttl <= now_ms

SameActors(s, t) ==
    /\ s.host_actors = t.host_actors
    /\ s.worker_actors = t.worker_actors

\* ingest of an expired particle, and the poll that follows it. `first` says
\* when the poll must return the event of this particle
ExpiredIngest(particle, function, peer_scope, first) ==
    LET event == ErrEvent("ParticleExpired", particle)
        s == ingest(pl, particle, function, peer_scope, env, now)
    IN /\ s = [pl EXCEPT !.events = Append(@, event)]
       /\ \A ord \in Orders(s) :
              LET r == poll(s, env, now, ord)
              IN /\ r.ret = Ready(Head(s.events))
                 /\ first => r.ret = Ready(event)
                 /\ r.s.events = Tail(s.events)
                 /\ SameActors(r.s, pl)

\* C4 as the specification has it: whenever a particle whose deadline has
\* passed is ingested, one ParticleExpired event with its id is queued, no
\* actor is created or touched, and the next poll returns that event
C4_ExpiredThenNextPoll ==
    \A c \in IngestCalls :
        DeadlinePassed(c[1], now) => ExpiredIngest(c[1], c[2], c[3], TRUE)

\* C4, amended: the next poll returns the oldest event of the queue, which is
\* the event of this particle when the queue was empty at the ingest
C4_ExpiredThenOldestEvent ==
    \A c \in IngestCalls :
        DeadlinePassed(c[1], now) => ExpiredIngest(c[1], c[2], c[3], pl.events = <<>>)

\* an expired particle was ingested into a plumber without actors, and the
\* poll after it has returned its ParticleExpired event
C4_Witness ==
    /\ last.op = "poll"
    /\ \E p \in env.particles :
           /\ DeadlinePassed(p, last.at)
           /\ last.ret = Ready(ErrEvent("ParticleExpired", p))
    /\ pl.events = <<>>
    /\ pl.host_actors = EmptyMap
    /\ pl.worker_actors = EmptyMap

\* C5: ingest of a particle that has not expired and whose signature does
\* not verify queues one SignatureVerificationFailed event with the
\* particle's id and changes nothing else
C5_BadSignatureRejected ==
    \A c \in IngestCalls :
        (~DeadlinePassed(c[1], now) /\ ~c[1].signed) =>
            ingest(pl, c[1], c[2], c[3], env, now) =
                [pl EXCEPT !.events =
                               Append(@, ErrEvent("SignatureVerificationFailed", c[1]))]

\* the last call ingested an unsigned particle in time, and its event is the
\* newest of the queue
C5_Witness ==
    /\ last.op = "ingest"
    /\ ~Unwrap(last.particle).signed
    /\ ~DeadlinePassed(Unwrap(last.particle), last.at)
    /\ pl.events # <<>>
    /\ pl.events[Len(pl.events)] =
           ErrEvent("SignatureVerificationFailed", Unwrap(last.particle))
    /\ \A sc \in AllScopes :
           Unwrap(last.particle).signature \notin DOMAIN ActorsOf(pl, sc)

\* A valid particle in time, for a worker that is set up and deactivated
ForInactiveWorker(particle, peer_scope) ==
    /\ ~DeadlinePassed(particle, now)
    /\ particle.signed
    /\ peer_scope \in env.ids \ env.active

\* C6: ingest of a valid particle in time for a deactivated worker, sent by
\* a peer that is neither a manager nor the host, changes nothing: no actor,
\* no mailbox, no bucket of the worker, no event
C6_InactiveWorkerDrops ==
    \A c \in IngestCalls :
        (/\ ForInactiveWorker(c[1], c[3])
         /\ c[1].init_peer_id \notin {ManagerPeer, Host}) =>
            ingest(pl, c[1], c[2], c[3], env, now) = pl

\* the last call ingested such a particle in time, and the plumber has no
\* bucket for the worker and no event
C6_Witness ==
    /\ last.op = "ingest"
    /\ last.scope \in env.ids \ env.active
    /\ Unwrap(last.particle).signed
    /\ Unwrap(last.particle).init_peer_id = RemotePeer
    /\ ~DeadlinePassed(Unwrap(last.particle), last.at)
    /\ last.scope \notin DOMAIN pl.worker_actors
    /\ pl.events = <<>>
    /\ ~pl.woken

\* C7: ingest of a valid particle in time for a deactivated worker, sent by
\* the host or by a manager, is accepted: the worker has an actor under the
\* particle's signature and the particle is the newest of its mailbox
C7_InactiveWorkerAdmitsHostAndManager ==
    \A c \in IngestCalls :
        (/\ ForInactiveWorker(c[1], c[3])
         /\ c[1].init_peer_id \in {ManagerPeer, Host}) =>
            LET s == ingest(pl, c[1], c[2], c[3], env, now)
                mailbox == MailboxAt(s, c[3], c[1].signature)
            IN /\ c[1].signature \in DOMAIN ActorsOf(s, c[3])
               /\ mailbox = Append(MailboxAt(pl, c[3], c[1].signature), c[1])

\* the last call ingested a particle of the host or of a manager for a
\* deactivated worker, and the particle is in the mailbox of its actor
C7_Witness(initiator) ==
    /\ last.op = "ingest"
    /\ last.scope \in env.ids \ env.active
    /\ Unwrap(last.particle).init_peer_id = initiator
    /\ Unwrap(last.particle).signature \in DOMAIN ActorsOf(pl, last.scope)
    /\ LET mailbox == MailboxAt(pl, last.scope, Unwrap(last.particle).signature)
       IN mailbox # <<>> /\ mailbox[Len(mailbox)] = Unwrap(last.particle)

C7_WitnessHost == C7_Witness(Host)

\* ingest gets the particle as far as its actor
Admitted(particle, peer_scope) ==
    /\ ~DeadlinePassed(particle, now)
    /\ particle.signed
    /\ \/ peer_scope = Host
       \/ peer_scope \in env.active
       \/ particle.init_peer_id \in {ManagerPeer, Host}

\* C8: a scope has one actor per signature: two admitted particles of one
\* signature, ingested one after the other into one scope, leave the scope
\* with its actors and the one of that signature, whose mailbox has grown
\* by the two particles; no other actor changes
C8_OneActorPerSignature ==
    \A c \in IngestCalls : \A q \in env.particles :
        (/\ q.signature = c[1].signature
         /\ Admitted(c[1], c[3])
         /\ Admitted(q, c[3])) =>
            LET key == c[1].signature
                s == ingest(ingest(pl, c[1], c[2], c[3], env, now), q, c[2], c[3], env, now)
            IN /\ DOMAIN ActorsOf(s, c[3]) = DOMAIN ActorsOf(pl, c[3]) \cup {key}
               /\ MailboxAt(s, c[3], key) = MailboxAt(pl, c[3], key) \o <<c[1], q>>
               /\ \A sc \in AllScopes : \A k \in DOMAIN ActorsOf(pl, sc) :
                      <<sc, k>> # <<c[3], key>> => ActorAt(s, sc, k) = ActorAt(pl, sc, k)

\* two particles of one signature were ingested into a scope: one actor has
\* both in its mailbox
C8_Witness ==
    /\ last.op = "ingest"
    /\ LET mailbox == MailboxAt(pl, last.scope, Unwrap(last.particle).signature)
       IN /\ Len(mailbox) = 2
          /\ mailbox[1].signature = mailbox[2].signature
          /\ mailbox[2] = Unwrap(last.particle)

\* The signature of the particles PA
SigA == PA(0).signature

HostActorHasTwo ==
    /\ SigA \in DOMAIN pl.host_actors
    /\ Len(pl.host_actors[SigA].mailbox) = 2

HostActorDidAll ==
    /\ SigA \in DOMAIN pl.host_actors
    /\ pl.host_actors[SigA].mailbox = <<>>
    /\ ~ActorIsExecuting(pl.host_actors[SigA])

\* An actor leaves its map in this step with mail, although the pool of its
\* scope had a vm for it
RemovedWithMail(sc, k) ==
    /\ k \in DOMAIN ActorsOf(pl, sc)
    /\ k \notin DOMAIN ActorsOf(pl', sc)
    /\ ActorAt(pl, sc, k).mailbox # <<>>
    /\ IsSome(PoolOf(pl, sc))
    /\ HasVm(Unwrap(PoolOf(pl, sc)))

\* C9 as the specification has it: with a vm in the pool, the entries of a
\* mailbox are dequeued and executed before the actor is removed, so that no
\* actor is removed with mail
C9_ProcessedBeforeRemoved ==
    [][\A sc \in AllScopes : \A k \in DOMAIN ActorsOf(pl, sc) :
          ~RemovedWithMail(sc, k)]_vars

\* C9, amended: the two entries of the mailbox are both dequeued and
\* executed, unless the deadline of the actor passes first; and an actor is
\* removed with mail only when its deadline has passed
C9_ProcessedUnlessExpired ==
    /\ HostActorHasTwo ~> (HostActorDidAll \/ DeadlinePassed(PA(0), now))
    /\ [][\A sc \in AllScopes : \A k \in DOMAIN ActorsOf(pl, sc) :
             RemovedWithMail(sc, k) => now >= ActorAt(pl, sc, k).deadline]_vars

\* two particles were ingested in time into the host's actor, which has
\* executed both and is still there, its last result collected in this tick
C9_Witness ==
    /\ last.op = "poll"
    /\ <<Host, SigA>> \in last.tick.completed
    /\ env.sent = 2
    /\ ~DeadlinePassed(PA(0), now)
    /\ HostActorDidAll

-----------------------------------------------------------------------------
(* Cleanup *)

\* The actors the particles PA and PB can create
ActorSlots == Scopes \X {PA(0).signature, PB.signature}

Present(scope, key) == key \in DOMAIN ActorsOf(pl, scope)

\* The actor is one a cleanup pass removes: its deadline has passed and it has
\* no execution in flight
Eligible(scope, key) ==
    /\ Present(scope, key)
    /\ ActorIsExpired(ActorAt(pl, scope, key), now)
    /\ ~ActorIsExecuting(ActorAt(pl, scope, key))

\* How often the data store was asked to clean the data of this actor
TimesCleaned(scope, key) ==
    LET S == {ck \in DOMAIN pl.data_store : ck.peer = scope /\ ck.signature = key}
    IN IF S = {} THEN 0 ELSE pl.data_store[CHOOSE ck \in S : TRUE]

\* The data store is asked at most once about a key, and about one key at most
\* for an actor
CleanedAtMostOnce ==
    /\ \A ck \in DOMAIN pl.data_store : pl.data_store[ck] <= 1
    /\ \A ck1, ck2 \in DOMAIN pl.data_store :
           ck1.peer = ck2.peer /\ ck1.signature = ck2.signature => ck1 = ck2

\* C11: polled again and again, the plumber removes every actor that is
\* expired and not executing from its map, and the data store is asked to
\* clean that actor's key, once and never a second time
C11_ExpiredIdleIsRemoved ==
    /\ \A slot \in ActorSlots :
           Eligible(slot[1], slot[2])
               ~> (~Present(slot[1], slot[2]) /\ TimesCleaned(slot[1], slot[2]) = 1)
    /\ []CleanedAtMostOnce

\* the data store has cleaned the keys of a host actor and of a worker's
\* actor, both removed from their maps
C11_Witness ==
    /\ \E key \in SigsOf(env) : ~Present(Host, key) /\ TimesCleaned(Host, key) = 1
    /\ \E key \in SigsOf(env) : ~Present("w1", key) /\ TimesCleaned("w1", key) = 1

\* The actors a cleanup pass c over the current state has removed
RemovedBy(c) ==
    {slot \in ActorSlots :
        Present(slot[1], slot[2]) /\ slot[2] \notin DOMAIN ActorsOf(c.s, slot[1])}

\* A cleanup pass over the current state removes at most MAX_CLEANUP_KEYS_SIZE
\* actors, schedules the keys of exactly those, leaves every other actor as
\* it was, and leaves an eligible one only when it has reached the limit
CleanupPassIsBounded ==
    \A ord \in Orders(pl) :
        LET c == cleanup(pl, now, ord)
        IN /\ Cardinality(RemovedBy(c)) <= MAX_CLEANUP_KEYS_SIZE
           /\ Len(c.keys) <= MAX_CLEANUP_KEYS_SIZE
           /\ {c.keys[i] : i \in DOMAIN c.keys}
                  = {cleanup_key(ActorAt(pl, slot[1], slot[2]), slot[1], slot[2]) :
                         slot \in RemovedBy(c)}
           /\ Len(c.keys) = Cardinality(RemovedBy(c))
           /\ c.keys # <<>> =>
                  c.s.cleanup_future = Some([keys |-> c.keys, done |-> FALSE])
           /\ \A slot \in ActorSlots \ RemovedBy(c) :
                  Present(slot[1], slot[2]) =>
                      ActorAt(c.s, slot[1], slot[2]) = ActorAt(pl, slot[1], slot[2])
           /\ c.ran /\ Len(c.keys) < MAX_CLEANUP_KEYS_SIZE =>
                  \A slot \in ActorSlots \ RemovedBy(c) : ~Eligible(slot[1], slot[2])

\* C12: one cleanup pass removes at most MAX_CLEANUP_KEYS_SIZE actors over
\* the host map and all worker maps together and schedules at most that many
\* keys; the eligible actors beyond the limit stay as they are, and the
\* passes of later ticks remove them
C12_CleanupIsCapped ==
    /\ []CleanupPassIsBounded
    /\ \A slot \in ActorSlots :
           Eligible(slot[1], slot[2]) ~> ~Present(slot[1], slot[2])

\* the last tick's pass has collected as many keys as the limit allows and
\* has left behind an actor that was eligible
C12_Witness ==
    /\ last.op = "poll"
    /\ Len(last.tick.keys) = MAX_CLEANUP_KEYS_SIZE
    /\ \E slot \in ActorSlots :
           /\ Present(slot[1], slot[2])
           /\ ActorIsExpired(ActorAt(pl, slot[1], slot[2]), last.at)
           /\ ~ActorIsExecuting(ActorAt(pl, slot[1], slot[2]))

-----------------------------------------------------------------------------
(* Starting on the free vms *)

\* The actors of a scope that are ready: mail waiting, nothing in flight
ReadyActors(s, scope) ==
    {k \in DOMAIN ActorsOf(s, scope) : ActorCanStart(ActorAt(s, scope, k))}

\* The executions a tick has started in a scope
StartedCount(tick, scope) ==
    Cardinality({i \in DOMAIN tick.started : tick.started[i][1] = scope})

\* The free vms of a scope's pool
FreeVms(s, scope) == free_vms(Unwrap(PoolOf(s, scope)))

\* The ready actors of a scope that a poll has left exactly as they were
StillWaiting(s, scope) ==
    {k \in ReadyActors(pl, scope) :
        k \in DOMAIN ActorsOf(s, scope) /\ ActorAt(s, scope, k) = ActorAt(pl, scope, k)}

\* A pool has fewer free vms than its scope has ready actors
MoreReadyThanFree(scope) ==
    /\ IsSome(PoolOf(pl, scope))
    /\ Cardinality(ReadyActors(pl, scope)) > FreeVms(pl, scope)

TickStartsFromPool(scope) ==
    /\ pl.events = <<>>
    /\ Borrowed(pl, scope) = 0
    /\ \A k \in ReadyActors(pl, scope) : ~ActorIsExpired(ActorAt(pl, scope, k), now)

-----------------------------------------------------------------------------
(* Routing the effects *)

\* The result of the execution a tick collects from an actor
ResultOf(slot) == Unwrap(ActorAt(pl, slot[1], slot[2]).current)

\* The next peers of a result that are scopes of this node, and the others
LocalPeers(result) ==
    {result.next_peers[i] : i \in DOMAIN result.next_peers} \cap AllScopes
RemotePeers(result) ==
    SelectSeq(result.next_peers, LAMBDA p : p \notin AllScopes)

\* The events of a queue that route to remote peers
RoutingEvents(events) ==
    {i \in DOMAIN events : events[i].kind = "RemoteRoutingEffects"}

\* The last n entries of a mailbox are all this particle
EndsWith(mailbox, particle, n) ==
    /\ Len(mailbox) >= n
    /\ \A i \in (Len(mailbox) - n + 1) .. Len(mailbox) : mailbox[i] = particle

Occurrences(seq, x) == Cardinality({i \in DOMAIN seq : seq[i] = x})

\* The remote side of what a tick r has collected: one event for each result
\* with a remote next peer, carrying its remote peers and nothing else
RemoteSideOf(r) ==
    LET with_remote == {c \in r.tick.completed : RemotePeers(ResultOf(c)) # <<>>}
    IN /\ Cardinality(RoutingEvents(r.s.events)) = Cardinality(with_remote)
       /\ \A c \in with_remote :
              \E i \in RoutingEvents(r.s.events) :
                  r.s.events[i] = RemoteRoutingEffects(ResultOf(c).particle,
                                                       RemotePeers(ResultOf(c)))
       /\ \A i \in RoutingEvents(r.s.events) :
              \A j \in DOMAIN r.s.events[i].next_peers :
                  r.s.events[i].next_peers[j] \notin AllScopes

\* C14 as claimed: of the next peers of every execution a tick collects, the
\* remote ones go into one RemoteRoutingEffects event and each local one
\* finds the particle at the end of the mailbox of its scope's actor
C14_LocalPeersReceive ==
    \A ord \in Orders(pl) :
        LET r == poll(pl, env, now, ord)
        IN ~r.ret.ready =>
              /\ RemoteSideOf(r)
              /\ \A c \in r.tick.completed : \A scope \in LocalPeers(ResultOf(c)) :
                     EndsWith(MailboxAt(r.s, scope, c[2]), ResultOf(c).particle,
                              Occurrences(ResultOf(c).next_peers, scope))

\* C14: of the next peers of every execution a tick collects, the remote ones
\* go into one RemoteRoutingEffects event that carries them and no local
\* peer, no such event is made when there is none, and the particle is
\* ingested once for each local one: it ends up in the mailbox of that
\* scope's actor when ingest admits it at that tick; when it has expired
\* ingest queues ParticleExpired instead, and for a deactivated worker a
\* particle not initiated by the host or a manager is dropped
C14_NextPeersAreSplit ==
    \A ord \in Orders(pl) :
        LET r == poll(pl, env, now, ord)
            expired == {c \in r.tick.completed :
                           /\ DeadlinePassed(ResultOf(c).particle, now)
                           /\ LocalPeers(ResultOf(c)) # {}}
        IN ~r.ret.ready =>
              /\ RemoteSideOf(r)
              /\ \A c \in r.tick.completed : \A scope \in LocalPeers(ResultOf(c)) :
                     IF Admitted(ResultOf(c).particle, scope)
                     THEN EndsWith(MailboxAt(r.s, scope, c[2]), ResultOf(c).particle,
                                   Occurrences(ResultOf(c).next_peers, scope))
                     ELSE ResultOf(c).particle \notin
                              {MailboxAt(r.s, scope, c[2])[i] :
                                   i \in DOMAIN MailboxAt(r.s, scope, c[2])}
                          \ {MailboxAt(pl, scope, c[2])[i] :
                                   i \in DOMAIN MailboxAt(pl, scope, c[2])}
              /\ \A c \in expired :
                     \E i \in DOMAIN r.s.events :
                         r.s.events[i] = ErrEvent("ParticleExpired", ResultOf(c).particle)
              /\ expired = {} => RoutingEvents(r.s.events) = DOMAIN r.s.events

\* the last tick has collected an execution with a local and a remote next
\* peer: the worker's actor has the particle in its mailbox and the event
\* queued for the remote peer names that peer alone
C14_Witness ==
    /\ last.op = "poll"
    /\ last.tick.local # <<>>
    /\ last.tick.remote # <<>>
    /\ \E i \in DOMAIN last.tick.local :
           /\ last.tick.local[i].next_peers = <<"w1">>
           /\ EndsWith(MailboxAt(pl, "w1", last.tick.local[i].particle.signature),
                       last.tick.local[i].particle, 1)
    /\ \E i \in DOMAIN pl.events :
           pl.events[i].kind = "RemoteRoutingEffects"
           /\ pl.events[i].next_peers = <<RemotePeer>>

-----------------------------------------------------------------------------
(* The events queue *)

\* A poll of the current state returns Ready exactly when an event is queued;
\* it then returns the oldest one, takes that one off the queue and does
\* nothing else: no actor, free vm or cleanup future changes
PollPopsOldestEvent ==
    \A ord \in Orders(pl) :
        LET r == poll(pl, env, now, ord)
        IN /\ r.ret.ready <=> pl.events # <<>>
           /\ pl.events # <<>> =>
                 /\ r.ret = Ready(Head(pl.events))
                 /\ r.s.events = Tail(pl.events)
                 /\ r.tick = NoTick
                 /\ r.s.host_actors = pl.host_actors
                 /\ r.s.worker_actors = pl.worker_actors
                 /\ r.s.cleanup_future = pl.cleanup_future
                 /\ r.s.data_store = pl.data_store
                 /\ \A scope \in AllScopes :
                        IsSome(PoolOf(pl, scope)) =>
                            /\ IsSome(PoolOf(r.s, scope))
                            /\ Unwrap(PoolOf(r.s, scope)).free = Unwrap(PoolOf(pl, scope)).free
           /\ pl.events = <<>> => r.ret = Pending

\* The queue changes at its two ends only: a step takes its oldest event or
\* adds events behind the ones it holds
QueueStep ==
    \/ IsPrefix(pl.events, pl'.events)
    \/ pl.events # <<>> /\ pl'.events = Tail(pl.events)

\* C15: poll returns Ready(e) exactly when the events queue is not empty at
\* the event check; e is the oldest event and the only one taken off; such a
\* poll collects no completion, runs no cleanup pass and starts no execution.
\* Events leave the queue in the order they entered it
C15_ReadyWithOldestEvent == []PollPopsOldestEvent /\ [][QueueStep]_vars

\* the last poll has returned an event and has left a different one, queued
\* after it, at the head of the queue
C15_Witness ==
    /\ last.op = "poll"
    /\ last.ret.ready
    /\ pl.events # <<>>
    /\ Head(pl.events) # Unwrap(last.ret.event)

-----------------------------------------------------------------------------
(* Polling with nothing to do *)

\* The scopes that have actors or a pool in s
ScopesOf(s) == {Host} \cup DOMAIN s.worker_actors \cup DOMAIN s.worker_vm_pools

\* No outstanding work: no event queued, every mailbox empty, nothing in
\* flight, no actor expired, every pool with all its vms created, no cleanup
\* future
NoOutstandingWork(s, now_ms) ==
    /\ s.events = <<>>
    /\ s.cleanup_future = None
    /\ \A scope \in ScopesOf(s) :
           /\ \A k \in DOMAIN ActorsOf(s, scope) :
                  /\ ActorAt(s, scope, k).mailbox = <<>>
                  /\ ~ActorIsExecuting(ActorAt(s, scope, k))
                  /\ ~ActorIsExpired(ActorAt(s, scope, k), now_ms)
           /\ IsSome(PoolOf(s, scope)) =>
                  /\ Unwrap(PoolOf(s, scope)).started
                  /\ Unwrap(PoolOf(s, scope)).creating = {}

\* s and t have the same actors with the same mailboxes, the same pools and
\* the same events, and neither has a cleanup future the other lacks
SameWork(s, t) ==
    /\ \A scope \in ScopesOf(s) \cup ScopesOf(t) :
           /\ ActorsOf(s, scope) = ActorsOf(t, scope)
           /\ PoolOf(s, scope) = PoolOf(t, scope)
    /\ s.events = t.events
    /\ s.cleanup_future = t.cleanup_future
    /\ s.data_store = t.data_store

\* C16 as claimed: with no outstanding work, poll returns Pending and leaves
\* the actor maps, the pools and the events queue as they were
C16_IdlePollKeepsMaps ==
    NoOutstandingWork(pl, now) =>
        \A ord \in Orders(pl) :
            LET r == poll(pl, env, now, ord)
            IN /\ r.ret = Pending
               /\ r.s.host_actors = pl.host_actors
               /\ r.s.worker_actors = pl.worker_actors
               /\ r.s.host_vm_pool = pl.host_vm_pool
               /\ r.s.worker_vm_pools = pl.worker_vm_pools
               /\ r.s.events = pl.events

\* C16: with no outstanding work, poll returns Pending and leaves the actors,
\* their mailboxes, the pools and the events queue as they were, and makes no
\* cleanup future; of the actor maps it changes this only: the empty bucket
\* of a worker without a pool is dropped.  A second poll changes nothing
C16_IdlePollKeepsWork ==
    NoOutstandingWork(pl, now) =>
        \A ord \in Orders(pl) :
            LET r == poll(pl, env, now, ord)
            IN /\ r.ret = Pending
               /\ SameWork(r.s, pl)
               /\ r.s.host_actors = pl.host_actors
               /\ DOMAIN r.s.worker_actors =
                      {w \in DOMAIN pl.worker_actors :
                          pl.worker_actors[w] # EmptyMap \/ w \in DOMAIN pl.worker_vm_pools}
               /\ \A again \in Orders(r.s) :
                      /\ poll(r.s, env, now, again).ret = Pending
                      /\ poll(r.s, env, now, again).s = r.s

\* the last poll found no outstanding work and did nothing, with actors in
\* the host's map and in a worker's and with the vms of both pools free
C16_Witness ==
    /\ last.op = "poll"
    /\ last.ret = Pending
    /\ last.tick.completed = {} /\ last.tick.started = <<>> /\ last.tick.keys = <<>>
    /\ NoOutstandingWork(pl, last.at)
    /\ pl.host_actors # EmptyMap
    /\ pl.host_vm_pool.free # <<>>
    /\ \E w \in DOMAIN pl.worker_vm_pools :
           /\ ActorsOf(pl, w) # EmptyMap
           /\ pl.worker_vm_pools[w].free # <<>>

-----------------------------------------------------------------------------
(* Waking the poller *)

\* C17: once poll has registered a waker, every ingest that queues an event
\* or appends a particle to a mailbox wakes it before it returns
C17_IngestWakes ==
    IsSome(pl.waker) =>
        \A c \in IngestCalls :
            LET s == ingest([pl EXCEPT !.woken = FALSE], c[1], c[2], c[3], env, now)
            IN \/ s.events # pl.events
               \/ MailboxAt(s, c[3], c[1].signature) # MailboxAt(pl, c[3], c[1].signature)
               => s.woken

-----------------------------------------------------------------------------
(* A lost vm *)

\* The executions a tick has collected in a scope whose vm came back
GivenBack(tick, scope) ==
    {c \in tick.completed : c[1] = scope /\ ~ResultOf(c).vm_lost}

\* C18: when a tick collects an execution whose vm was lost, the vm is among
\* those its pool is creating and is not put on the free list, which grows
\* only by the vms that came back; the particle that was in flight is not
\* put back into the mailbox, and the actor is free for its next entry: at
\* the end of the tick it is idle or has started the head of its mailbox
C18_LostVmIsRecreated ==
    \A ord \in Orders(pl) :
        LET r == poll(pl, env, now, ord)
        IN \A c \in r.tick.completed :
              LET scope == c[1]
                  key == c[2]
                  before == ActorAt(pl, scope, key)
                  pool == Unwrap(PoolOf(r.s, scope))
              IN ResultOf(c).vm_lost =>
                    /\ IsSome(PoolOf(r.s, scope))
                    /\ ResultOf(c).vm_id \in pool.creating
                    /\ Len(pool.free) = Len(Unwrap(PoolOf(pl, scope)).free)
                                           + Cardinality(GivenBack(r.tick, scope))
                                           - StartedCount(r.tick, scope)
                    /\ key \in DOMAIN ActorsOf(r.s, scope) =>
                          LET after == ActorAt(r.s, scope, key)
                          IN \/ /\ after.current = None
                                /\ after.mailbox = before.mailbox
                             \/ /\ before.mailbox # <<>>
                                /\ IsSome(after.current)
                                /\ Unwrap(after.current).particle = Head(before.mailbox)
                                /\ ~Unwrap(after.current).ready
                                /\ after.mailbox = Tail(before.mailbox)
                                /\ \E i \in DOMAIN r.tick.started :
                                       r.tick.started[i] =
                                           <<scope, key, Unwrap(after.current).vm_id>>

\* the last tick has collected a host execution and started none, and every
\* vm of the host pool is being created: the vm of that execution was lost;
\* the actor has its next particle waiting
C18_Witness ==
    /\ last.op = "poll"
    /\ last.tick.started = <<>>
    /\ pl.host_vm_pool.creating = 0 .. (HostPoolSize - 1)
    /\ \E c \in last.tick.completed :
           /\ c[1] = Host
           /\ c[2] \in DOMAIN pl.host_actors
           /\ pl.host_actors[c[2]].current = None
           /\ pl.host_actors[c[2]].mailbox # <<>>

-----------------------------------------------------------------------------
(* A worker without a pool *)

\* For a worker without a pool, a poll of the current state starts none of
\* its actors and leaves each of them as it is, unless the actor is expired
\* and not executing: then cleanup may remove it; and an ingest for that
\* worker that is admitted appends the particle to its actor's mailbox
PoollessWorkerWaits ==
    \A w \in env.ids \ DOMAIN pl.worker_vm_pools :
        /\ \A ord \in Orders(pl) :
               LET r == poll(pl, env, now, ord)
               IN /\ StartedCount(r.tick, w) = 0
                  /\ w \notin DOMAIN r.s.worker_vm_pools
                  /\ \A k \in DOMAIN ActorsOf(pl, w) :
                         IF k \in DOMAIN ActorsOf(r.s, w)
                         THEN ActorAt(r.s, w, k) = ActorAt(pl, w, k)
                         ELSE /\ ActorIsExpired(ActorAt(pl, w, k), now)
                              /\ ~ActorIsExecuting(ActorAt(pl, w, k))
                              /\ r.tick.ran
        /\ \A c \in IngestCalls :
               c[3] = w /\ Admitted(c[1], w) =>
                   LET s == ingest(pl, c[1], c[2], c[3], env, now)
                   IN /\ MailboxAt(s, w, c[1].signature)
                          = Append(MailboxAt(pl, w, c[1].signature), c[1])
                      /\ w \notin DOMAIN s.worker_vm_pools

\* A step that takes a worker's pool away leaves the worker's actors
PoolRemovalKeepsActors ==
    \A w \in DOMAIN pl.worker_vm_pools \ DOMAIN pl'.worker_vm_pools :
        /\ ActorsOf(pl', w) = ActorsOf(pl, w)
        /\ ActorsOf(pl, w) # EmptyMap => w \in DOMAIN pl'.worker_actors

\* C19: from remove_worker_pool(w) until create_worker_pool(w), no poll
\* starts an execution of an actor of w; the actors of w stay in
\* worker_actors[w], ingest for w still appends to their mailboxes, and they
\* leave only when a cleanup pass removes them as expired
C19_NoPoolNoProgress == []PoollessWorkerWaits /\ [][PoolRemovalKeepsActors]_vars

\* the last poll found the pool of w1 removed: the actor of w1 that started
\* while the pool was there still holds its execution, and another actor of
\* w1, not expired, waits with its mail
C19_Witness ==
    /\ last.op = "poll"
    /\ "w1" \notin DOMAIN pl.worker_vm_pools
    /\ \E k \in DOMAIN ActorsOf(pl, "w1") : ActorIsExecuting(ActorAt(pl, "w1", k))
    /\ \E k \in ReadyActors(pl, "w1") : ~ActorIsExpired(ActorAt(pl, "w1", k), last.at)

-----------------------------------------------------------------------------
(* The deadline *)

\* timestamp + ttl, or the largest time when the sum is beyond it
SaturatedDeadline(particle) ==
    LET sum == particle.timestamp + particle.ttl
    IN IF sum <= U64_MAX THEN sum ELSE U64_MAX

\* C20: a particle's deadline is timestamp + ttl, saturating at the largest
\* time, and ingest rejects the particle as expired exactly when now is at or
\* past it: at now = timestamp + ttl the particle is rejected and an event
\* says so, at timestamp + ttl - 1 it is appended to the mailbox of its actor,
\* whose deadline is that of the particle that created it
C20_ExpiredFromDeadlineOn ==
    \A c \in IngestCalls :
        LET particle == c[1]
            s == ingest(pl, particle, c[2], c[3], env, now)
        IN /\ IF now >= SaturatedDeadline(particle)
              THEN /\ s.events = Append(pl.events, ErrEvent("ParticleExpired", particle))
                   /\ SameActors(s, pl)
              ELSE /\ s.events = pl.events
                   /\ MailboxAt(s, c[3], particle.signature)
                          = Append(MailboxAt(pl, c[3], particle.signature), particle)
                   /\ particle.signature \notin DOMAIN ActorsOf(pl, c[3]) =>
                          ActorAt(s, c[3], particle.signature).deadline
                              = SaturatedDeadline(particle)
           /\ now = particle.timestamp + particle.ttl =>
                  s.events = Append(pl.events, ErrEvent("ParticleExpired", particle))
           /\ now = particle.timestamp + particle.ttl - 1 =>
                  particle \in {MailboxAt(s, c[3], particle.signature)[i] :
                                   i \in DOMAIN MailboxAt(s, c[3], particle.signature)}

\* the particle stamped at the end of time was taken in, and the last ingest,
\* at the very millisecond of its particle's deadline, was rejected
C20_Witness ==
    /\ PF.signature \in DOMAIN pl.host_actors
    /\ pl.host_actors[PF.signature].deadline = U64_MAX
    /\ last.op = "ingest"
    /\ last.at = Unwrap(last.particle).timestamp + Unwrap(last.particle).ttl
    /\ pl.events # <<>>
    /\ pl.events[Len(pl.events)] = ErrEvent("ParticleExpired", Unwrap(last.particle))

-----------------------------------------------------------------------------
(* The vms of a pool *)

\* The vm ids the executing actors of a scope hold, one entry for each actor
HeldBy(s, scope) ==
    {<<k, Unwrap(ActorAt(s, scope, k).current).vm_id>> :
        k \in {a \in DOMAIN ActorsOf(s, scope) : ActorIsExecuting(ActorAt(s, scope, a))}}

\* The vm ids on the free list of a pool
FreeIds(pool) == {pool.free[i] : i \in DOMAIN pool.free}

\* C21: in every state, each vm id of a pool is in one state only: on the
\* free list once, or held by one executing actor of the pool's scope, or
\* being created; it is never twice on the free list, never free or being
\* created while an actor holds it, never held by two actors
C21_VmInOneState ==
    \A scope \in AllScopes :
        IsSome(PoolOf(pl, scope)) =>
            LET pool == Unwrap(PoolOf(pl, scope))
                held == HeldBy(pl, scope)
            IN /\ Cardinality(FreeIds(pool)) = Len(pool.free)
               /\ FreeIds(pool) \cap pool.creating = {}
               /\ \A h \in held : h[2] \notin FreeIds(pool) \cup pool.creating
               /\ \A h1, h2 \in held : h1[2] = h2[2] => h1 = h2
               /\ pool.started =>
                      FreeIds(pool) \cup pool.creating \cup {h[2] : h \in held}
                          = 0 .. (pool.pool_size - 1)

\* C22: when poll has returned, a vm of a pool that is neither free nor being
\* created is held by an actor of the pool's scope whose execution is in
\* flight, the vms so missing from a pool are as many as the executing actors
\* of its scope, and every vm an actor handed back in the tick is on the
\* free list or with an actor that started on it later in the tick
C22_BorrowedOnlyWhileExecuting ==
    TickBoundary =>
        /\ \A scope \in AllScopes :
               IsSome(PoolOf(pl, scope)) =>
                   LET pool == Unwrap(PoolOf(pl, scope))
                       out == (0 .. (pool.pool_size - 1)) \ (FreeIds(pool) \cup pool.creating)
                   IN /\ \A vm_id \in out : \E h \in HeldBy(pl, scope) : h[2] = vm_id
                      /\ pool.started => Cardinality(out) = Borrowed(pl, scope)
        /\ \A i \in DOMAIN last.tick.returned :
               LET scope == last.tick.returned[i][1]
                   vm_id == last.tick.returned[i][3]
               IN \/ vm_id \in FreeIds(Unwrap(PoolOf(pl, scope)))
                  \/ \E h \in HeldBy(pl, scope) : h[2] = vm_id

-----------------------------------------------------------------------------
(* A particle for which no actor can be created *)

\* get_or_create_actor has no deal id or no runtime handle for the worker, or
\* no key pair for the scope of an actor it has to construct
NotSetUp(scope, key) ==
    \/ scope # Host /\ (scope \notin env.deals \/ scope \notin env.runtimes)
    \/ key \notin DOMAIN ActorsOf(pl, scope) /\ scope \notin env.keypairs

\* ingest gets as far as the actor of the particle
ReachesActor(particle, scope) ==
    /\ ~ExpiredAtIngest(particle, now)
    /\ verify(particle)
    /\ ~WorkerIsNotActive(env, particle, scope)

\* Whatever poll can do after t, it can do after s: the same return value
\* and the same work left
PollSeesNoMore(s, t) ==
    \A o \in Orders(s) : \E u \in Orders(t) :
        LET a == poll(s, env, now, o)
            b == poll(t, env, now, u)
        IN a.ret = b.ret /\ SameWork(a.s, b.s)

\* C23: when ingest cannot create the actor of a particle (no key pair for the
\* scope, no deal id or no runtime handle for the worker), the particle is
\* dropped: every mailbox, every actor and the event queue are as before the
\* call, and a poll that follows returns and leaves what it would have
\* without the call.
C23_FailedCreationDropsParticle ==
    \A c \in IngestCalls :
        ReachesActor(c[1], c[3]) /\ NotSetUp(c[3], c[1].signature) =>
            LET s == ingest(pl, c[1], c[2], c[3], env, now)
            IN /\ SameWork(s, pl)
               /\ \A scope \in Scopes : ActorsOf(s, scope) = ActorsOf(pl, scope)
               /\ ~s.panicked => PollSeesNoMore(s, pl)

\* A particle for a worker that is not set up was ingested and a poll followed
C23_Witness ==
    /\ last.op = "poll"
    /\ env.sent > 0
    /\ "w1" \in DOMAIN pl.worker_actors
    /\ ActorsOf(pl, "w1") = EmptyMap
    /\ NotSetUp("w1", PA(0).signature)

-----------------------------------------------------------------------------
(* The providers of a key *)

\* The calls made so far for a key
CallsFor(key) == SelectSeq(calls, LAMBDA c : c.key = key)

\* Every call for the key added a provider the key was not yet given
OnlyDistinctProvidersAdded(key) ==
    LET cs == CallsFor(key)
    IN /\ \A i \in DOMAIN cs : cs[i].op = "add_provider" /\ cs[i].ret = Ok
       /\ \A i, j \in DOMAIN cs : cs[i].arg.provider = cs[j].arg.provider => i = j

\* records.sort_by(|r1, r2| distance(r1).cmp(&distance(r2)))
RECURSIVE SortedByDistance(_)
SortedByDistance(S) ==
    IF S = {} THEN <<>>
    ELSE LET nearest == CHOOSE r \in S : \A q \in S :
                            distance(r.key, r.provider) <= distance(q.key, q.provider)
         IN <<nearest>> \o SortedByDistance(S \ {nearest})

\* records.truncate(n)
Truncated(seq, n) == SubSeq(seq, 1, IF Len(seq) < n THEN Len(seq) ELSE n)

\* C24: after add_provider calls for one key with distinct providers,
\* providers(key) is the added records sorted by increasing distance to the
\* key and cut to max_providers_per_key; a key never has more than
\* max_providers_per_key providers nor two records of one provider.
C24_ProvidersNearestFirst ==
    \A key \in RecordKeys :
        LET ps == providers(memory_store, key)
            cs == CallsFor(key)
        IN /\ Len(ps) <= max_providers_per_key
           /\ \A i, j \in DOMAIN ps : ps[i].provider = ps[j].provider => i = j
           /\ OnlyDistinctProvidersAdded(key) =>
                  ps = Truncated(SortedByDistance({cs[i].arg : i \in DOMAIN cs}),
                                 max_providers_per_key)

\* A key was given more distinct providers than it keeps, the nearest last
C24_Witness ==
    /\ Len(CallsFor("k1")) = max_providers_per_key + 1
    /\ OnlyDistinctProvidersAdded("k1")
    /\ calls[Len(calls)].arg.provider = "p2"
    /\ providers(memory_store, "k1")[1].provider = "p2"

-----------------------------------------------------------------------------
(* The records the local peer provides *)

\* The stored provider records of the local peer
StoredLocal(st) ==
    UNION {{st.providers[k][i] : i \in {j \in DOMAIN st.providers[k] :
                                            st.providers[k][j].provider = LocalId}} :
           k \in DOMAIN st.providers}

\* C25: after any sequence of add_provider and remove_provider calls
\* (re-adding a provider with another expiry included), provided() is exactly
\* the set of stored provider records whose provider is the local peer; after
\* remove_provider of the local peer's record for a key, provided() has no
\* record for that key.
C25_ProvidedInSync ==
    /\ provided(memory_store) = StoredLocal(memory_store)
    /\ \A key \in RecordKeys :
           LET st == remove_provider(memory_store, key, LocalId)
           IN \A r \in provided(st) : r.key # key

-----------------------------------------------------------------------------
(* Adding and removing a provider *)

Range(seq) == {seq[i] : i \in DOMAIN seq}

ProvidersOf(st, key) == {p.provider : p \in Range(providers(st, key))}

\* After remove_provider the key has no record of the provider
RemovedIsGone ==
    \A key \in RecordKeys, provider \in PeerIds :
        provider \notin ProvidersOf(remove_provider(memory_store, key, provider), key)

\* Adding a record of a provider the key has replaces that record in place
ReAddReplaces(record) ==
    LET r == add_provider(memory_store, record)
    IN record.provider \in ProvidersOf(memory_store, record.key) =>
           /\ r.ret = Ok
           /\ Len(providers(r.st, record.key)) = Len(providers(memory_store, record.key))
           /\ ProvidersOf(r.st, record.key) = ProvidersOf(memory_store, record.key)
           /\ record \in Range(providers(r.st, record.key))

\* C26 as claimed: whenever add_provider(r) returns Ok, providers(r.key)
\* contains r afterwards (a re-added provider is replaced in place); after
\* remove_provider the key has no record of that provider.
C26_AddedIsStored ==
    /\ \A record \in ProviderRecords :
           /\ add_provider(memory_store, record).ret = Ok =>
                  record \in Range(providers(add_provider(memory_store, record).st,
                                             record.key))
           /\ ReAddReplaces(record)
    /\ RemovedIsGone

\* The key has max_providers_per_key providers, all others than that of the
\* record and none farther from the key
NoRoomFor(st, record) ==
    /\ Len(providers(st, record.key)) = max_providers_per_key
    /\ record.provider \notin ProvidersOf(st, record.key)
    /\ PositionOfFarther(providers(st, record.key), record) = 0

\* C26: whenever add_provider(r) returns Ok, providers(r.key) contains r
\* afterwards (a re-added provider is replaced in place), unless the key
\* already has max_providers_per_key providers, all others than r's and none
\* farther from the key: then Ok is returned and the store is as before.
\* After remove_provider the key has no record of that provider.
C26_AddedIsStoredIfNearEnough ==
    /\ \A record \in ProviderRecords :
           LET r == add_provider(memory_store, record)
           IN /\ r.ret = Ok =>
                     IF NoRoomFor(memory_store, record)
                     THEN r.st = memory_store
                     ELSE record \in Range(providers(r.st, record.key))
              /\ ReAddReplaces(record)
    /\ RemovedIsGone

\* A provider was added to a key that had no room for it, one was added again
\* with another expiry, and one was removed
C26_Witness ==
    /\ Len(calls) = 4
    /\ calls[1].op = "add_provider" /\ calls[2].op = "add_provider"
    /\ calls[3].op = "add_provider" /\ calls[3].ret = Ok
    /\ calls[3].arg \notin Range(providers(memory_store, calls[3].key))
    /\ calls[1].key = calls[3].key /\ calls[2].key = calls[3].key
    /\ calls[4].op = "remove_provider"
    /\ calls[4].key = calls[3].key
    /\ Len(providers(memory_store, calls[3].key)) = max_providers_per_key - 1

-----------------------------------------------------------------------------
(* The keys with providers *)

-----------------------------------------------------------------------------
(* The records of a store *)

\* put refuses the record and the store is as before
Refused(r, err) ==
    LET p == put(memory_store, r) IN p.ret = err /\ p.st = memory_store

\* C28: put accepts every record whose value has at most max_value_bytes
\* bytes and refuses a larger one with ValueTooLarge; a record for a new key
\* is refused with MaxRecords when the store has max_records keys; a refused
\* put leaves the store as it was; after put and remove of the key, get
\* returns None.
C28_PutWithinLimits ==
    /\ \A r \in Records :
           LET p == put(memory_store, r)
               full == Cardinality(DOMAIN memory_store.records) >= max_records
           IN /\ Len(r.value) > max_value_bytes => Refused(r, ValueTooLarge)
              /\ Len(r.value) <= max_value_bytes =>
                     IF r.key \notin DOMAIN memory_store.records /\ full
                     THEN Refused(r, MaxRecords)
                     ELSE p.ret = Ok
              /\ p.ret # Ok => p.st = memory_store
              /\ get(remove(p.st, r.key), r.key) = None
    /\ Cardinality(DOMAIN memory_store.records) <= max_records

-----------------------------------------------------------------------------
(* One batch cleanup at a time *)

\* The batch cleanup of the data store that has not resolved
CleanupOutstanding(s) == IsSome(s.cleanup_future) /\ ~Unwrap(s.cleanup_future).done

\* Every actor of s is an actor of t
KeepsEveryActor(s, t) ==
    /\ DOMAIN s.worker_actors \subseteq DOMAIN t.worker_actors
    /\ \A scope \in ScopesOf(s) : DOMAIN ActorsOf(s, scope) \subseteq DOMAIN ActorsOf(t, scope)

\* C29: at most one batch cleanup is outstanding.  While the previous cleanup
\* future has not resolved, the cleanup pass of a tick is skipped entirely: no
\* actor leaves a map, no key is collected and the future stays.  Once it has
\* resolved, the pass of the same tick runs, and the batch it schedules is the
\* only one.
C29_OneCleanupAtATime ==
    pl.events = <<>> =>
        \A ord \in Orders(pl) :
            LET r == poll(pl, env, now, ord)
            IN IF CleanupOutstanding(pl)
               THEN /\ ~r.tick.ran
                    /\ r.tick.keys = <<>>
                    /\ r.s.cleanup_future = pl.cleanup_future
                    /\ KeepsEveryActor(pl, r.s)
               ELSE /\ r.tick.ran
                    /\ r.s.cleanup_future =
                           IF r.tick.keys = <<>> THEN None
                           ELSE Some([keys |-> r.tick.keys, done |-> FALSE])

\* A tick skipped its cleanup pass, the batch of an earlier tick outstanding,
\* although an actor is expired and idle
C29_Witness ==
    /\ last.op = "poll"
    /\ last.ret = Pending
    /\ ~last.tick.ran
    /\ CleanupOutstanding(pl)
    /\ \E slot \in ActorSlots :
           /\ Present(slot[1], slot[2])
           /\ ActorIsExpired(ActorAt(pl, slot[1], slot[2]), last.at)
           /\ ~ActorIsExecuting(ActorAt(pl, slot[1], slot[2]))

-----------------------------------------------------------------------------
(* The buckets of the workers *)

\* The actors of a worker's bucket that the pass c leaves: those whose
\* cleanup key it did not collect
LeftBy(c, w) ==
    {k \in DOMAIN pl.worker_actors[w] :
        \A i \in DOMAIN c.keys : c.keys[i] # cleanup_key(pl.worker_actors[w][k], w, k)}

\* The pass c dropped the bucket of the worker
Dropped(c, w) == w \in DOMAIN pl.worker_actors /\ w \notin DOMAIN c.s.worker_actors

\* C30 as claimed: a cleanup pass drops the bucket of a worker if and only if,
\* after it removed the eligible actors, the bucket is empty and the worker
\* has no vm pool.
C30_EmptyPoollessBucketIsDropped ==
    \A ord \in Orders(pl) :
        LET c == cleanup(pl, now, ord)
        IN c.ran =>
               \A w \in DOMAIN pl.worker_actors :
                   Dropped(c, w) <=>
                       LeftBy(c, w) = {} /\ w \notin DOMAIN pl.worker_vm_pools

\* The keys the pass c collected from the host actors
HostKeys(c) == {i \in DOMAIN c.keys : c.keys[i].peer = Host}

\* C30: a cleanup pass that collected fewer than MAX_CLEANUP_KEYS_SIZE keys
\* from the host actors drops the bucket of a worker if and only if, after it
\* removed the actors it collected, the bucket is empty and the worker has no
\* vm pool; a pass that collected MAX_CLEANUP_KEYS_SIZE keys from the host
\* actors drops no bucket.  A bucket that still holds an actor, or whose
\* worker has a pool, is never dropped.
C30_BucketDroppedUnlessHostFillsPass ==
    \A ord \in Orders(pl) :
        LET c == cleanup(pl, now, ord)
        IN \A w \in DOMAIN pl.worker_actors :
               /\ Dropped(c, w) =>
                      c.ran /\ LeftBy(c, w) = {} /\ w \notin DOMAIN pl.worker_vm_pools
               /\ c.ran =>
                      IF Cardinality(HostKeys(c)) >= MAX_CLEANUP_KEYS_SIZE
                      THEN ~Dropped(c, w)
                      ELSE Dropped(c, w) <=>
                               LeftBy(c, w) = {} /\ w \notin DOMAIN pl.worker_vm_pools
               /\ ~Dropped(c, w) =>
                      DOMAIN c.s.worker_actors[w] = LeftBy(c, w)

\* A pass dropped the emptied bucket of a worker without a pool, and kept the
\* empty bucket of a worker with a pool
C30_Witness ==
    /\ last.op = "poll"
    /\ last.tick.ran
    /\ \E i \in DOMAIN last.tick.keys : last.tick.keys[i].peer = "w2"
    /\ "w2" \notin DOMAIN pl.worker_actors
    /\ "w1" \in DOMAIN pl.worker_actors
    /\ "w1" \in DOMAIN pl.worker_vm_pools

-----------------------------------------------------------------------------
(* The order of a tick: collect, then start *)

\* The vms the executions that completed in the tick gave back to the pool
ReleasedIn(tick, scope) == {ResultOf(c).vm_id : c \in GivenBack(tick, scope)}

\* The actors of the scope that have a particle to run once the completed
\* executions of the tick are collected, and that the cleanup pass leaves
WaitingAfterCollect(tick, scope) ==
    {k \in DOMAIN ActorsOf(pl, scope) :
        LET actor == ActorAt(pl, scope, k)
        IN /\ actor.mailbox # <<>>
           /\ ~ActorIsExpired(actor, now)
           /\ actor.current = None \/ <<scope, k>> \in tick.completed}

\* C31: within a tick the completed executions are collected and their vms
\* put back before an execution is started: every execution of the tick
\* starts on a vm that was free before the tick or was given back in it, and
\* when the pool had no free vm, a vm given back in the tick is taken in the
\* same tick by an actor with a particle waiting (another actor or the one
\* that completed).
C31_ReleasedVmIsTakenInTick ==
    pl.events = <<>> =>
        \A ord \in Orders(pl), scope \in AllScopes :
            IsSome(PoolOf(pl, scope)) =>
                LET r == poll(pl, env, now, ord)
                    released == ReleasedIn(r.tick, scope)
                    taken == {r.tick.started[i][3] :
                                 i \in {j \in DOMAIN r.tick.started :
                                           r.tick.started[j][1] = scope}}
                IN /\ taken \subseteq FreeIds(Unwrap(PoolOf(pl, scope))) \cup released
                   /\ /\ FreeVms(pl, scope) = 0
                      /\ released # {}
                      /\ WaitingAfterCollect(r.tick, scope) # {}
                      => taken \cap released # {}

\* A tick collected the execution of an actor of a worker whose pool has one
\* vm, and started the next execution of that worker on it
C31_Witness ==
    /\ last.op = "poll"
    /\ \E c \in last.tick.completed, i \in DOMAIN last.tick.started :
           /\ c[1] = "w1"
           /\ last.tick.started[i][1] = "w1"
           /\ IsSome(PoolOf(pl, "w1"))
           /\ Unwrap(PoolOf(pl, "w1")).pool_size = 1
           /\ Borrowed(pl, "w1") = 1

-----------------------------------------------------------------------------
(* Local routing effects are re-ingested last *)

\* The tick started an execution of the actor
TickStarted(tick, scope, key) ==
    \E i \in DOMAIN tick.started :
        tick.started[i][1] = scope /\ tick.started[i][2] = key

\* The tick collected a local routing effect of the particle for the scope
ReingestedIn(tick, scope, particle) ==
    \E i \in DOMAIN tick.local :
        /\ tick.local[i].particle = particle
        /\ \E j \in DOMAIN tick.local[i].next_peers : tick.local[i].next_peers[j] = scope

\* C32: the local routing effects a tick collected are re-ingested after the
\* vms were put back and after the tick started its executions: an execution
\* the tick starts runs the particle that headed the mailbox before the tick,
\* the re-ingested particles are behind what the mailbox held, waiting for a
\* later tick, and the re-ingest leaves the service function of the actor
\* as it was (none for an actor it creates).
C32_ReingestedWaitsForNextTick ==
    \A ord \in Orders(pl) :
        LET r == poll(pl, env, now, ord)
        IN ~r.ret.ready =>
               \A scope \in ScopesOf(r.s) : \A key \in DOMAIN ActorsOf(r.s, scope) :
                   LET was == Present(scope, key)
                       before == MailboxAt(pl, scope, key)
                       rest == IF TickStarted(r.tick, scope, key) THEN Tail(before) ELSE before
                       actor == ActorAt(r.s, scope, key)
                   IN /\ TickStarted(r.tick, scope, key) =>
                             /\ was /\ before # <<>>
                             /\ IsSome(actor.current)
                             /\ Unwrap(actor.current).particle = Head(before)
                      /\ ~was => actor.current = None
                      /\ Len(actor.mailbox) >= Len(rest)
                      /\ SubSeq(actor.mailbox, 1, Len(rest)) = rest
                      /\ \A i \in (Len(rest) + 1) .. Len(actor.mailbox) :
                             ReingestedIn(r.tick, scope, actor.mailbox[i])
                      /\ actor.function = IF was THEN ActorAt(pl, scope, key).function
                                          ELSE FALSE

\* A tick re-ingested a particle for the host while the host pool had a free
\* vm and the actor was idle: the particle waits in the mailbox
C32_Witness ==
    /\ last.op = "poll"
    /\ \E i \in DOMAIN last.tick.local :
           LET particle == last.tick.local[i].particle
               actor == ActorAt(pl, Host, particle.signature)
           IN /\ ReingestedIn(last.tick, Host, particle)
              /\ Present(Host, particle.signature)
              /\ actor.current = None
              /\ actor.mailbox = <<particle>>
              /\ HasVm(pl.host_vm_pool)

-----------------------------------------------------------------------------
(* The workers take turns *)

\* The worker has a pool with a free vm and an actor that can start and is
\* not expired
CanStart(w) ==
    /\ w \in DOMAIN pl.worker_vm_pools
    /\ HasVm(pl.worker_vm_pools[w])
    /\ \E k \in ReadyActors(pl, w) : ~ActorIsExpired(ActorAt(pl, w, k), now)

\* The pool of the worker has no free vm, with an actor waiting for one and
\* no execution about to give one back
Exhausted(w) ==
    /\ w \in DOMAIN pl.worker_vm_pools
    /\ ~HasVm(pl.worker_vm_pools[w])
    /\ ReadyActors(pl, w) # {}
    /\ \A k \in DOMAIN ActorsOf(pl, w) : ~ActorCompleted(ActorAt(pl, w, k))

\* The order iterates worker a before worker b
Before(ord, a, b) ==
    \E i, j \in DOMAIN ord.workers :
        i < j /\ ord.workers[i] = a /\ ord.workers[j] = b

\* C33 as claimed: a worker earlier in the iteration order can starve a later
\* one when its pool is exhausted: when the pool of one worker is empty and
\* another has a free vm and a ready actor, there is an order with the first
\* before the second in which the tick starts no execution of the second.
C33_EarlierWorkerStarvesLater ==
    \A a, b \in DOMAIN pl.worker_actors :
        pl.events = <<>> /\ a # b /\ Exhausted(a) /\ CanStart(b) =>
            \E ord \in Orders(pl) :
                /\ Before(ord, a, b)
                /\ StartedCount(poll(pl, env, now, ord).tick, b) = 0

\* C33: no worker starves another: when the pool of one worker is empty, the
\* loop over its actors ends and the loop over the workers goes on, so a
\* worker that has a free vm in its own pool and a ready actor starts an
\* execution in the tick, whatever the iteration order.
C33_NoWorkerStarvesAnother ==
    \A b \in DOMAIN pl.worker_actors :
        pl.events = <<>> /\ CanStart(b) =>
            \A ord \in Orders(pl) :
                StartedCount(poll(pl, env, now, ord).tick, b) >= 1

\* A tick started an execution of w2 while the pool of w1 had no vm for the
\* actor of w1 that waits
C33_Witness ==
    /\ last.op = "poll"
    /\ StartedCount(last.tick, "w2") = 1
    /\ StartedCount(last.tick, "w1") = 0
    /\ "w1" \in DOMAIN pl.worker_vm_pools
    /\ ~HasVm(pl.worker_vm_pools["w1"])
    /\ \E k \in ReadyActors(pl, "w1") : ~ActorIsExpired(ActorAt(pl, "w1", k), last.at)

-----------------------------------------------------------------------------
(* A tick that buffers events asks for the next poll *)

\* C34: whenever poll returns Pending, the events queue is empty or the waker
\* was woken during that tick, so that an event buffered at the end of the
\* tick is never left in the queue without a next poll requested.
C34_PendingLeavesNoEventUnannounced ==
    last.op = "poll" /\ last.ret = Pending =>
        pl.events = <<>> \/ pl.woken

-----------------------------------------------------------------------------
(* A removed worker leaves nothing behind *)

\* The worker has no pool and holds an actor under the key
LeftWithoutPool(w, k) ==
    /\ w \notin DOMAIN pl.worker_vm_pools
    /\ w \in DOMAIN pl.worker_actors
    /\ k \in DOMAIN pl.worker_actors[w]

\* C35: after remove_worker_pool(w) every actor of w, one executing when the
\* pool was removed included, is eventually removed once its deadline has
\* passed, and the bucket of w is dropped.
C35_RemovedWorkerLeavesNothing ==
    \A w \in Workers : \A k \in {"sa", "sb"} :
        LeftWithoutPool(w, k) ~>
            (w \notin DOMAIN pl.worker_actors \/ w \in DOMAIN pl.worker_vm_pools)

\* An actor that is not executing when its worker is left without a pool is
\* removed, and the bucket with it, unless the peers start it again
IdleActorsOfRemovedWorkerGo ==
    \A w \in Workers : \A k \in {"sa", "sb"} :
        (LeftWithoutPool(w, k) /\ \A j \in DOMAIN pl.worker_actors[w] :
                                      ~IsSome(pl.worker_actors[w][j].current)) ~>
            (w \notin DOMAIN pl.worker_actors \/ w \in DOMAIN pl.worker_vm_pools)

-----------------------------------------------------------------------------
(* What an ingest that fails at actor creation leaves behind *)

\* The fields of the plumber other than worker_actors are the same
SameButWorkerActors(s, t) ==
    /\ s.host_actors = t.host_actors
    /\ s.host_vm_pool = t.host_vm_pool
    /\ s.worker_vm_pools = t.worker_vm_pools
    /\ s.events = t.events
    /\ s.cleanup_future = t.cleanup_future
    /\ s.data_store = t.data_store

\* C36 as claimed: an ingest that fails at actor creation leaves host_actors,
\* worker_actors with its set of worker buckets, the VM pools and the events
\* queue as they were before the call.
C36_FailedCreationChangesNothing ==
    \A c \in IngestCalls :
        ReachesActor(c[1], c[3]) /\ NotSetUp(c[3], c[1].signature) =>
            LET s == ingest(pl, c[1], c[2], c[3], env, now)
            IN /\ SameButWorkerActors(s, pl)
               /\ s.worker_actors = pl.worker_actors

\* C36: an ingest that fails at actor creation leaves host_actors, the VM
\* pools, the events queue and every bucket of worker_actors as they were;
\* the set of worker buckets is the one before the call together with the
\* worker the particle was sent to, whose bucket, if new, is empty.
C36_FailedCreationAddsEmptyBucketOnly ==
    \A c \in IngestCalls :
        ReachesActor(c[1], c[3]) /\ NotSetUp(c[3], c[1].signature) =>
            LET s == ingest(pl, c[1], c[2], c[3], env, now)
            IN /\ SameButWorkerActors(s, pl)
               /\ DOMAIN s.worker_actors =
                      DOMAIN pl.worker_actors \cup (IF c[3] = Host THEN {} ELSE {c[3]})
               /\ \A w \in DOMAIN s.worker_actors :
                      s.worker_actors[w] = IF w \in DOMAIN pl.worker_actors
                                           THEN pl.worker_actors[w] ELSE EmptyMap

\* The first ingest of a behaviour got as far as actor creation for w1, which
\* is not set up, and left the empty bucket of w1
C36_Witness ==
    /\ last.op = "ingest"
    /\ last.scope = "w1"
    /\ env.sent = 1
    /\ ~ExpiredAtIngest(Unwrap(last.particle), last.at)
    /\ verify(Unwrap(last.particle))
    /\ "w1" \notin env.deals \/ "w1" \notin env.runtimes \/ "w1" \notin env.keypairs
    /\ pl.worker_actors = MapPut(EmptyMap, "w1", EmptyMap)

-----------------------------------------------------------------------------
(* The order of the checks of ingest *)

\* The events the call added to the queue
EventsAddedBy(s, t) == SubSeq(t.events, Len(s.events) + 1, Len(t.events))

\* C37: ingest checks expiry, then the signature, then worker liveness, and
\* stops at the first check that fails: a call adds at most one event; an
\* expired particle yields ParticleExpired alone, also when its signature is
\* invalid and also when its worker is inactive; an unexpired particle with an
\* invalid signature yields SignatureVerificationFailed alone, also when its
\* worker is inactive; a failed check leaves every actor as it was.
C37_ChecksInOrderOneEvent ==
    \A c \in IngestCalls :
        LET s == ingest(pl, c[1], c[2], c[3], env, now)
            added == EventsAddedBy(pl, s)
            failed == \/ ExpiredAtIngest(c[1], now)
                      \/ ~verify(c[1])
                      \/ WorkerIsNotActive(env, c[1], c[3])
        IN /\ Len(s.events) <= Len(pl.events) + 1
           /\ SubSeq(s.events, 1, Len(pl.events)) = pl.events
           /\ ExpiredAtIngest(c[1], now) => added = <<ErrEvent("ParticleExpired", c[1])>>
           /\ ~ExpiredAtIngest(c[1], now) /\ ~verify(c[1]) =>
                  added = <<ErrEvent("SignatureVerificationFailed", c[1])>>
           /\ ~ExpiredAtIngest(c[1], now) /\ verify(c[1]) => added = <<>>
           /\ failed => /\ s.host_actors = pl.host_actors
                        /\ s.worker_actors = pl.worker_actors

\* An expired particle with an invalid signature was sent to an inactive
\* worker and the call queued ParticleExpired
C37_Witness ==
    /\ last.op = "ingest"
    /\ last.scope = "w1"
    /\ ~is_worker_active(env, "w1")
    /\ ~verify(Unwrap(last.particle))
    /\ ExpiredAtIngest(Unwrap(last.particle), last.at)
    /\ pl.events # <<>>
    /\ pl.events[Len(pl.events)] = ErrEvent("ParticleExpired", Unwrap(last.particle))

-----------------------------------------------------------------------------
(* Routing loops end at the deadline *)

\* The sends of the particle to local peers that the tick collected
LocalSends(tick, particle) ==
    {<<i, j>> \in (DOMAIN tick.local) \X (1 .. MaxThreads + Cardinality(Scopes)) :
        /\ tick.local[i].particle = particle
        /\ j \in DOMAIN tick.local[i].next_peers}

\* C38: the local re-ingest of a tick goes through the checks of ingest: a
\* particle the tick re-appended to a mailbox is not expired, and for a
\* particle whose deadline has passed the tick queues one ParticleExpired per
\* local peer its executions named and appends it to no mailbox, so that it is
\* executed no further.
C38_ReingestEndsAtDeadline ==
    \A ord \in Orders(pl) :
        LET r == poll(pl, env, now, ord)
        IN ~r.ret.ready =>
               /\ \A scope \in ScopesOf(r.s) : \A key \in DOMAIN ActorsOf(r.s, scope) :
                      LET before == MailboxAt(pl, scope, key)
                          rest == IF TickStarted(r.tick, scope, key)
                                  THEN Tail(before) ELSE before
                          mailbox == ActorAt(r.s, scope, key).mailbox
                      IN \A i \in (Len(rest) + 1) .. Len(mailbox) :
                             /\ ReingestedIn(r.tick, scope, mailbox[i])
                             /\ ~ExpiredAtIngest(mailbox[i], now)
               /\ \A i \in DOMAIN r.tick.local :
                      LET particle == r.tick.local[i].particle
                      IN ExpiredAtIngest(particle, now) =>
                             /\ Occurrences(r.s.events, ErrEvent("ParticleExpired", particle))
                                    = Cardinality(LocalSends(r.tick, particle))
                             /\ \A scope \in ScopesOf(r.s) :
                                    Len(MailboxAt(r.s, scope, particle.signature))
                                        <= Len(MailboxAt(pl, scope, particle.signature))

\* An execution on the host that named the host itself was collected after
\* the deadline of its particle: the tick queued ParticleExpired and the
\* actor, if still there, has nothing to run
C38_Witness ==
    /\ last.op = "poll"
    /\ \E i \in DOMAIN last.tick.local :
           LET particle == last.tick.local[i].particle
           IN /\ ReingestedIn(last.tick, Host, particle)
              /\ <<Host, particle.signature>> \in last.tick.completed
              /\ ExpiredAtIngest(particle, last.at)
              /\ \E j \in DOMAIN pl.events :
                     pl.events[j] = ErrEvent("ParticleExpired", particle)
              /\ MailboxAt(pl, Host, particle.signature) = <<>>

-----------------------------------------------------------------------------
(* Services are added and removed by tasks *)

\* C39: the mutations of add_service and remove_service take effect in the
\* order of the calls: after add_service(s) followed by remove_service(s),
\* with no later call for s, once both tasks have finished s is not registered.
C39_MutationsInCallOrder ==
    \A i, j \in DOMAIN env.tasks :
        /\ i < j
        /\ env.tasks[i].name = "Add service"
        /\ env.tasks[j].name = "Remove service"
        /\ env.tasks[i].service = env.tasks[j].service
        /\ env.tasks[i].finished /\ env.tasks[j].finished
        /\ \A k \in DOMAIN env.tasks :
               k > i /\ k # j => env.tasks[k].service # env.tasks[i].service
        => env.tasks[i].service \notin env.builtins


====
